---------------------------- MODULE Spec2Model ----------------------------
(***************************************************************************)
(* A model of retzkek/htcondor-go: the Command builder and its cache-key   *)
(* codec (command.go), the groupcache-backed query path, the streaming     *)
(* pipeline, and the ClassAd parsers (classad/classad.go).                 *)
(*                                                                         *)
(* Strings are sequences of one-character strings, so that Join, Split,    *)
(* SplitN and Trim are computed character by character as the Go code      *)
(* computes them.                                                          *)
(***************************************************************************)
EXTENDS Integers, Sequences, FiniteSets, TLC

VARIABLES
    \* ---- key codec (SpecKey) ----
    c,          \* the Command being built
    enc,        \* the encodeKey results so far: <<[t, key]>>
    dec,        \* the result of decodeKey on the last key, or NoDecode
    \* ---- batch parser (SpecRead) ----
    rin,        \* the reader's items
    rres,       \* what ReadClassAds returned, or NoResult
    \* ---- cached and direct Run (SpecCache) ----
    clock,      \* the last reading of time.Now(), in ticks
    lifetime,   \* the cacheLifetime given to WithCache
    cacheBytes, \* the cacheBytes given to WithCache
    call,       \* each caller's RunWithContext: position and locals; the
                \* callers are interchangeable, and call in the order of
                \* their numbers
    mainCache,  \* the group's main cache, most recently used first
    nhit,       \* the main cache's hit counter (CacheStats.Hits)
    flight,     \* keys with a load in flight (the group's single flight)
    execLog,    \* the tool executions: key, finished
    firstAds,   \* key -> records of the first successful cached Run
    retained,   \* key -> records of a successful cached Run whose entry
                \* is still in the main cache
    \* ---- streaming (SpecStream) ----
    sin,        \* the call: with a cache or not, whether the pipe opens, and
                \* what the tool would do (start, output, exit status)
    sp,         \* StreamWithContext / StreamClassAds: position and locals
    sproc,      \* the tool process: state, lines written so far, exit status
    ctx,        \* the context given to StreamWithContext: live or cancelled
    ch,         \* the record channel: values received from it, closed
    errors,     \* the error channel: values received from it, closed
    \* ---- Copy and the builder methods on two Commands (SpecCopy) ----
    heap,       \* the backing arrays of the []string slices, by address
    objs,       \* the Commands c (the receiver of Copy) and cc (its copy),
                \* with Attributes and Args as slice headers into heap
    hist,       \* per Command: the values given to WithAttribute and to
                \* WithArg so far, in call order (cc inherits those of c)
    ncalls,     \* builder calls made since the state SpecCopy starts in
    \* ---- AttributeFromString (SpecAttr) ----
    tok,        \* the text given to AttributeFromString
    attr,       \* the Attribute it returned, or NoAttr
    \* ---- commandGetter and the pipes of its process (SpecPipe) ----
    writes,     \* the stream of each block the tool writes, in order
    getter      \* commandGetter's position, the blocks the tool has written,
                \* those held by the two pipes, and those read from each

kvars == <<c, enc, dec>>
rvars == <<rin, rres>>
cvars == <<clock, lifetime, cacheBytes, call, mainCache, nhit, flight,
           execLog, firstAds, retained>>
svars == <<sin, sp, sproc, ctx, ch, errors>>
yvars == <<heap, objs, hist, ncalls>>
avars == <<tok, attr>>
pvars == <<writes, getter>>
vars == <<kvars, rvars, cvars, svars, yvars, avars, pvars>>

(***************************************************************************)
(* Bounds of the model.                                                    *)
(***************************************************************************)
MaxAttrs == 1          \* WithAttribute calls on one Command
MaxArgs == 1           \* WithArg calls on one Command
MaxRuns == 2           \* RunWithContext calls, each by a caller of its own
MaxClock == 1          \* the clock of SpecCache runs over 0..MaxClock
MaxLines == 4          \* items of a reader
MaxOut == 3            \* items the tool writes to its standard output
MaxBuilt == 3          \* WithAttribute / WithArg calls SpecCopy starts after
MaxEdits == 2          \* builder calls SpecCopy makes on c and cc
MaxTok == 3            \* characters of a token given to AttributeFromString
MaxWrites == 4         \* blocks the tool of SpecPipe writes before it exits
PipeCapacity == 1      \* blocks a pipe holds before a write to it blocks
MaxTime == 3           \* the wall clock runs over 0..MaxTime ticks
MaxLifetime == 3       \* cache lifetimes run over 0..MaxLifetime ticks
TicksPerSecond == 2    \* clock ticks in one second (time.Duration is finer
                       \* than the second RFC3339 renders)

(***************************************************************************)
(* Strings.                                                                *)
(***************************************************************************)
EmptyStr == <<>>

\* const keySeparator = "\x1f"
keySeparator == <<"US">>
\* const attributeFormat = "-af:lrng"
attributeFormat == <<"-", "a", "f", ":", "l", "r", "n", "g">>

FlagPool == <<"-", "p", "o", "o", "l">>
FlagName == <<"-", "n", "a", "m", "e">>
FlagLimit == <<"-", "l", "i", "m", "i", "t">>
FlagConstraint == <<"-", "c", "o", "n", "s", "t", "r", "a", "i", "n", "t">>
FlagLong == <<"-", "l", "o", "n", "g">>

Digit(n) == <<CASE n = 0 -> "0" [] n = 1 -> "1" [] n = 2 -> "2" [] n = 3 -> "3"
                [] n = 4 -> "4" [] n = 5 -> "5" [] n = 6 -> "6" [] n = 7 -> "7"
                [] n = 8 -> "8" [] n = 9 -> "9">>

\* fmt.Sprintf("%d", n) for n >= 0
RECURSIVE FormatInt(_)
FormatInt(n) == IF n < 10 THEN Digit(n) ELSE FormatInt(n \div 10) \o Digit(n % 10)

\* strings.Join(elems, sep)
RECURSIVE Join(_, _)
Join(elems, sep) ==
    IF Len(elems) = 0 THEN EmptyStr
    ELSE IF Len(elems) = 1 THEN elems[1]
    ELSE elems[1] \o sep \o Join(Tail(elems), sep)

\* strings.Split(s, sep) for a one-character sep: always at least one field
RECURSIVE SplitFrom(_, _, _)
SplitFrom(s, sep, cur) ==
    IF Len(s) = 0 THEN <<cur>>
    ELSE IF <<Head(s)>> = sep THEN <<cur>> \o SplitFrom(Tail(s), sep, EmptyStr)
    ELSE SplitFrom(Tail(s), sep, Append(cur, Head(s)))

Split(s, sep) == SplitFrom(s, sep, EmptyStr)

(***************************************************************************)
(* Command and its builder methods.                                        *)
(***************************************************************************)
\* NewCommand(command)
NewCommand(command) ==
    [Command |-> command, Pool |-> EmptyStr, Name |-> EmptyStr, Limit |-> 0,
     Constraint |-> EmptyStr, Attributes |-> <<>>, Args |-> <<>>,
     cache |-> FALSE, cacheGroup |-> EmptyStr, cacheLifetime |-> 0]

WithPoolOf(cmd, pool) == [cmd EXCEPT !.Pool = pool]
WithNameOf(cmd, name) == [cmd EXCEPT !.Name = name]
WithLimitOf(cmd, limit) == [cmd EXCEPT !.Limit = limit]
WithConstraintOf(cmd, constraint) == [cmd EXCEPT !.Constraint = constraint]
WithAttributeOf(cmd, attribute) == [cmd EXCEPT !.Attributes = Append(@, attribute)]
WithArgOf(cmd, arg) == [cmd EXCEPT !.Args = Append(@, arg)]
WithCacheOf(cmd, group, life) ==
    [cmd EXCEPT !.cache = TRUE, !.cacheGroup = group, !.cacheLifetime = life]

\* Command.MakeArgs with the extra arguments appended after the attributes
MakeArgsArgsLast(cmd) ==
    (IF cmd.Pool # EmptyStr THEN <<FlagPool, cmd.Pool>> ELSE <<>>)
    \o (IF cmd.Name # EmptyStr THEN <<FlagName, cmd.Name>> ELSE <<>>)
    \o (IF cmd.Limit > 0 THEN <<FlagLimit, FormatInt(cmd.Limit)>> ELSE <<>>)
    \o (IF cmd.Constraint # EmptyStr THEN <<FlagConstraint, cmd.Constraint>> ELSE <<>>)
    \o (IF Len(cmd.Attributes) > 0
        THEN <<attributeFormat>> \o cmd.Attributes
        ELSE <<FlagLong>>)
    \o (IF Len(cmd.Args) > 0 THEN cmd.Args ELSE <<>>)

\* Command.MakeArgs
MakeArgs(cmd) ==
    (IF cmd.Pool # EmptyStr THEN <<FlagPool, cmd.Pool>> ELSE <<>>)
    \o (IF cmd.Name # EmptyStr THEN <<FlagName, cmd.Name>> ELSE <<>>)
    \o (IF cmd.Limit > 0 THEN <<FlagLimit, FormatInt(cmd.Limit)>> ELSE <<>>)
    \o (IF cmd.Constraint # EmptyStr THEN <<FlagConstraint, cmd.Constraint>> ELSE <<>>)
    \o (IF Len(cmd.Args) > 0 THEN cmd.Args ELSE <<>>)
    \o (IF Len(cmd.Attributes) > 0
        THEN <<attributeFormat>> \o cmd.Attributes
        ELSE <<FlagLong>>)

(***************************************************************************)
(* Slices.  A []string is a header [arr, len] over a backing array         *)
(* heap[arr]; its capacity is the array's length; arr = 0 is the nil       *)
(* slice.  In SpecCopy the Attributes and Args of a Command are headers.   *)
(***************************************************************************)
NilSlice == [arr |-> 0, len |-> 0]

\* s[0:len(s)]
Elems(s, h) == IF s.arr = 0 THEN <<>> ELSE SubSeq(h[s.arr], 1, s.len)

\* make([]string, n): a fresh array of n empty strings
MakeSlice(n, h) ==
    [slice |-> [arr |-> Len(h) + 1, len |-> n],
     heap |-> Append(h, [i \in 1..n |-> EmptyStr])]

\* []string{elems...}: a fresh array holding exactly elems
Literal(elems, h) ==
    [slice |-> [arr |-> Len(h) + 1, len |-> Len(elems)],
     heap |-> Append(h, elems)]

\* append(s, v): in place when the capacity allows, else into a fresh array
\* of twice the capacity (at least len+1), as the runtime grows small slices
AppendSlice(s, v, h) ==
    IF s.arr # 0 /\ s.len < Len(h[s.arr])
    THEN [slice |-> [s EXCEPT !.len = @ + 1],
          heap |-> [h EXCEPT ![s.arr][s.len + 1] = v]]
    ELSE LET cap == IF s.arr = 0 THEN 0 ELSE Len(h[s.arr])
             newcap == IF s.len + 1 > 2 * cap THEN s.len + 1 ELSE 2 * cap
             old == Elems(s, h)
         IN  [slice |-> [arr |-> Len(h) + 1, len |-> s.len + 1],
              heap |-> Append(h, [i \in 1..newcap |->
                                     IF i <= s.len THEN old[i]
                                     ELSE IF i = s.len + 1 THEN v
                                     ELSE EmptyStr])]

\* the Command with its slices read out of the heap
Deref(cmd, h) ==
    [cmd EXCEPT !.Attributes = Elems(@, h), !.Args = Elems(@, h)]

\* NewCommand with nil slices
NewCommandAt(command) ==
    [NewCommand(command) EXCEPT !.Attributes = NilSlice, !.Args = NilSlice]

\* Command.Copy with the slice headers taken over, not the elements
CopyShallow(cmd, h) == [cmd |-> cmd, heap |-> h]

\* Command.Copy without the fields cache, cacheGroup and cacheLifetime
CopyWithoutCache(cmd, h) ==
    LET attrs == MakeSlice(cmd.Attributes.len, h)
        args == MakeSlice(cmd.Args.len, attrs.heap)
    IN  [cmd |-> [cmd EXCEPT !.Attributes = attrs.slice, !.Args = args.slice,
                             !.cache = FALSE, !.cacheGroup = EmptyStr,
                             !.cacheLifetime = 0],
         heap |-> [args.heap EXCEPT
                      ![attrs.slice.arr] = Elems(cmd.Attributes, h),
                      ![args.slice.arr] = Elems(cmd.Args, h)]]

\* Command.Copy: the scalar fields by value, Attributes and Args into arrays
\* of their own (copy() of no elements is skipped, to the same effect)
Copy(cmd, h) ==
    LET attrs == MakeSlice(cmd.Attributes.len, h)
        args == MakeSlice(cmd.Args.len, attrs.heap)
    IN  [cmd |-> [cmd EXCEPT !.Attributes = attrs.slice, !.Args = args.slice],
         heap |-> [args.heap EXCEPT
                      ![attrs.slice.arr] = Elems(cmd.Attributes, h),
                      ![args.slice.arr] = Elems(cmd.Args, h)]]

\* cc := c.Copy() of a Command given by its values: what the copy holds
CopyOf(cmd) ==
    LET attrs == Literal(cmd.Attributes, <<>>)
        args == Literal(cmd.Args, attrs.heap)
        r == Copy([cmd EXCEPT !.Attributes = attrs.slice, !.Args = args.slice],
                  args.heap)
    IN  Deref(r.cmd, r.heap)

\* Command.WithAttribute on a Command in the heap
WithAttributeAt(cmd, attribute, h) ==
    LET r == IF cmd.Attributes = NilSlice
             THEN Literal(<<attribute>>, h)
             ELSE AppendSlice(cmd.Attributes, attribute, h)
    IN  [cmd |-> [cmd EXCEPT !.Attributes = r.slice], heap |-> r.heap]

\* Command.WithArg on a Command in the heap
WithArgAt(cmd, arg, h) ==
    LET r == IF cmd.Args = NilSlice
             THEN Literal(<<arg>>, h)
             ELSE AppendSlice(cmd.Args, arg, h)
    IN  [cmd |-> [cmd EXCEPT !.Args = r.slice], heap |-> r.heap]

(***************************************************************************)
(* The cache-key codec.                                                    *)
(***************************************************************************)
\* time.Time.Truncate(d) for d > 0: down to a multiple of d since the zero time
Truncate(t, d) == t - (t % d)

\* time.Time.Format(time.RFC3339): whole seconds, the fraction is dropped
FormatRFC3339(t) == <<"T">> \o FormatInt(t \div TicksPerSecond)

\* Command.encodeKey with the time rendered whatever the cacheLifetime
encodeKeyTimed(cmd, now) ==
    FormatRFC3339(now)
    \o keySeparator \o cmd.Command \o keySeparator
    \o Join(MakeArgs(cmd), keySeparator)

\* Command.encodeKey without the field of the tool name
encodeKeyNoTool(cmd, now) ==
    (IF cmd.cacheLifetime > 0
     THEN FormatRFC3339(Truncate(now, cmd.cacheLifetime))
     ELSE <<"0">>)
    \o keySeparator
    \o Join(MakeArgs(cmd), keySeparator)

\* Command.encodeKey, with time.Now() = now
encodeKey(cmd, now) ==
    (IF cmd.cacheLifetime > 0
     THEN FormatRFC3339(Truncate(now, cmd.cacheLifetime))
     ELSE <<"0">>)
    \o keySeparator \o cmd.Command \o keySeparator
    \o Join(MakeArgs(cmd), keySeparator)

\* the first Go index i with parts[i] == attributeFormat, else len(parts)-1
\* (Go indices are 0-based: Go parts[i] is parts[i+1] here)
EndArgs(parts) ==
    IF \E i \in 1..Len(parts) : parts[i] = attributeFormat
    THEN (CHOOSE i \in 1..Len(parts) :
            /\ parts[i] = attributeFormat
            /\ \A j \in 1..(i-1) : parts[j] # attributeFormat) - 1
    ELSE Len(parts) - 1

NoDecode == [outcome |-> "none"]

\* decodeKey(key): outcome "ok" with the Command, "error" (fewer than two
\* fields), or "panic" (parts[2:endArgs] with endArgs < 2: slice bounds out
\* of range)
decodeKey(key) ==
    LET parts == Split(key, keySeparator)
        endArgs == EndArgs(parts)
    IN  IF Len(parts) < 2 THEN [outcome |-> "error"]
        ELSE IF Len(parts) > 2
        THEN IF endArgs < 2 THEN [outcome |-> "panic"]
             ELSE [outcome |-> "ok",
                   cmd |-> [NewCommand(parts[2]) EXCEPT
                       !.Args = SubSeq(parts, 3, endArgs),
                       !.Attributes =
                           IF endArgs < Len(parts) - 1
                           THEN SubSeq(parts, endArgs + 2, Len(parts))
                           ELSE <<>>]]
        ELSE [outcome |-> "ok", cmd |-> NewCommand(parts[2])]

(***************************************************************************)
(* ClassAd text: the scanner, the attribute codec and the two parsers.     *)
(*                                                                         *)
(* A reader is a sequence of items.  An item is a line (its characters,    *)
(* without the newline), or TooLong: a line longer than ScanBufferSize, at *)
(* which bufio.Scanner stops with ErrTooLong, or ReadErr: the reader       *)
(* returns an error other than EOF.                                        *)
(***************************************************************************)
TooLong == <<"<line longer than ScanBufferSize>">>
ReadErr == <<"<read error>">>
IsLine(item) == item # TooLong /\ item # ReadErr

\* bufio.ScanLines drops one trailing carriage return
DropCR(line) ==
    IF Len(line) > 0 /\ line[Len(line)] = "CR"
    THEN SubSeq(line, 1, Len(line) - 1)
    ELSE line

\* scanner.Scan() / scanner.Text() / scanner.Err() on the items not yet read
ScanResult(items) ==
    IF Len(items) = 0 THEN [kind |-> "eof"]
    ELSE IF IsLine(Head(items)) THEN [kind |-> "line", text |-> DropCR(Head(items))]
    ELSE [kind |-> "err", err |-> Head(items)]

\* strings.Trim(s, cutset)
RECURSIVE TrimLeft(_, _)
TrimLeft(s, cutset) ==
    IF Len(s) > 0 /\ Head(s) \in cutset THEN TrimLeft(Tail(s), cutset) ELSE s

RECURSIVE TrimRight(_, _)
TrimRight(s, cutset) ==
    IF Len(s) > 0 /\ s[Len(s)] \in cutset
    THEN TrimRight(SubSeq(s, 1, Len(s) - 1), cutset)
    ELSE s

Trim(s, cutset) == TrimRight(TrimLeft(s, cutset), cutset)

\* the index of the first "=" of text, or 0
IndexEq(text) ==
    IF \E i \in 1..Len(text) : text[i] = "="
    THEN CHOOSE i \in 1..Len(text) :
            text[i] = "=" /\ \A j \in 1..(i-1) : text[j] # "="
    ELSE 0

\* strings.SplitN(text, "=", 2)
SplitN2(text) ==
    IF IndexEq(text) = 0 THEN <<text>>
    ELSE <<SubSeq(text, 1, IndexEq(text) - 1),
           SubSeq(text, IndexEq(text) + 1, Len(text))>>

Digits == {"0", "1", "2", "3", "4", "5", "6", "7", "8", "9"}

DigitVal(d) ==
    CASE d = "0" -> 0 [] d = "1" -> 1 [] d = "2" -> 2 [] d = "3" -> 3
      [] d = "4" -> 4 [] d = "5" -> 5 [] d = "6" -> 6 [] d = "7" -> 7
      [] d = "8" -> 8 [] d = "9" -> 9

AllDigits(s) == Len(s) > 0 /\ \A i \in 1..Len(s) : s[i] \in Digits

Unsigned(s) == IF Len(s) > 0 /\ Head(s) \in {"+", "-"} THEN Tail(s) ELSE s

\* the digits of s without leading zeros ("0" for zero)
RECURSIVE StripZeros(_)
StripZeros(s) ==
    IF Len(s) > 1 /\ Head(s) = "0" THEN StripZeros(Tail(s)) ELSE s

\* x <= y for digit strings of the same length
DigitsLeq(x, y) ==
    \/ x = y
    \/ \E i \in 1..Len(x) :
           /\ DigitVal(x[i]) < DigitVal(y[i])
           /\ \A j \in 1..(i-1) : x[j] = y[j]

\* the digits of 2^63 - 1 and of 2^63
MaxInt64Digits ==
    <<"9","2","2","3","3","7","2","0","3","6","8","5","4","7","7","5","8","0","7">>
MinInt64Digits ==
    <<"9","2","2","3","3","7","2","0","3","6","8","5","4","7","7","5","8","0","8">>

\* strconv.ParseInt(val, 10, 64): an optional sign and decimal digits, the
\* value within the signed 64-bit range
ParseIntOk(val) ==
    LET d == StripZeros(Unsigned(val))
        limit == IF Head(val) = "-" THEN MinInt64Digits ELSE MaxInt64Digits
    IN  /\ AllDigits(Unsigned(val))
        /\ \/ Len(d) < Len(limit)
           \/ Len(d) = Len(limit) /\ DigitsLeq(d, limit)

\* the int64 parsed, as its canonical decimal text
ParseIntValue(val) ==
    LET d == StripZeros(Unsigned(val))
    IN  IF Head(val) = "-" /\ d # <<"0">> THEN <<"-">> \o d ELSE d

\* the decimal digits of 2^1024 - 2^970, the least magnitude that does not
\* round to a finite float64
Float64Overflow ==
    <<"1","7","9","7","6","9","3","1","3","4","8","6","2","3","1","5","8","0","7","9">> \o
    <<"3","7","2","8","9","7","1","4","0","5","3","0","3","4","1","5","0","7","9","9">> \o
    <<"3","4","1","3","2","7","1","0","0","3","7","8","2","6","9","3","6","1","7","3">> \o
    <<"7","7","8","9","8","0","4","4","4","9","6","8","2","9","2","7","6","4","7","5">> \o
    <<"0","9","4","6","6","4","9","0","1","7","9","7","7","5","8","7","2","0","7","0">> \o
    <<"9","6","3","3","0","2","8","6","4","1","6","6","9","2","8","8","7","9","1","0">> \o
    <<"9","4","6","5","5","5","5","4","7","8","5","1","9","4","0","4","0","2","6","3">> \o
    <<"0","6","5","7","4","8","8","6","7","1","5","0","5","8","2","0","6","8","1","9">> \o
    <<"0","8","9","0","2","0","0","0","7","0","8","3","8","3","6","7","6","2","7","3">> \o
    <<"8","5","4","8","4","5","8","1","7","7","1","1","5","3","1","7","6","4","4","7">> \o
    <<"5","7","3","0","2","7","0","0","6","9","8","5","5","5","7","1","3","6","6","9">> \o
    <<"5","9","6","2","2","8","4","2","9","1","4","8","1","9","8","6","0","8","3","4">> \o
    <<"9","3","6","4","7","5","2","9","2","7","1","9","0","7","4","1","6","8","4","4">> \o
    <<"4","3","6","5","5","1","0","7","0","4","3","4","2","7","1","1","5","5","9","6">> \o
    <<"9","9","5","0","8","0","9","3","0","4","2","8","8","0","1","7","7","9","0","4">> \o
    <<"1","7","4","4","9","7","7","9","2">>

\* the number a digit string stands for, capped at 1000
RECURSIVE NatOf(_)
NatOf(digs) ==
    IF Len(digs) = 0 THEN 0
    ELSE LET n == 10 * NatOf(SubSeq(digs, 1, Len(digs) - 1))
                  + DigitVal(digs[Len(digs)])
         IN  IF n > 1000 THEN 1000 ELSE n

\* the index of the first element of s that is in set, or 0
IndexAny(s, set) ==
    IF \E i \in 1..Len(s) : s[i] \in set
    THEN CHOOSE i \in 1..Len(s) : s[i] \in set /\ \A j \in 1..(i-1) : s[j] \notin set
    ELSE 0

LowerCase(s) ==
    [i \in 1..Len(s) |->
        CASE s[i] = "I" -> "i" [] s[i] = "N" -> "n" [] s[i] = "F" -> "f"
          [] s[i] = "T" -> "t" [] s[i] = "Y" -> "y" [] s[i] = "A" -> "a"
          [] OTHER -> s[i]]

\* strconv.ParseFloat(val, 64) returns no error: val is "nan", a signed or
\* unsigned "inf" or "infinity" (in any case of the letters), or decimal text
\* (an optional sign, digits with at most one point and at least one digit,
\* an optional exponent of an optional sign and digits) whose magnitude is
\* below Float64Overflow.  The hexadecimal forms are not modelled.
ParseFloatOk(val) ==
    LET u == Unsigned(val)
        e == IndexAny(u, {"e", "E"})
        mant == IF e = 0 THEN u ELSE SubSeq(u, 1, e - 1)
        expo == IF e = 0 THEN <<"0">> ELSE SubSeq(u, e + 1, Len(u))
        pt == IndexAny(mant, {"."})
        whole == IF pt = 0 THEN mant ELSE SubSeq(mant, 1, pt - 1)
        frac == IF pt = 0 THEN <<>> ELSE SubSeq(mant, pt + 1, Len(mant))
        sig == StripZeros(whole \o frac)
        expVal == IF Head(expo) = "-" THEN 0 - NatOf(Unsigned(expo))
                  ELSE NatOf(Unsigned(expo))
        \* the decimal exponent of the first significant digit
        sci == Len(whole) - 1 - (Len(whole \o frac) - Len(sig)) + expVal
    IN  \/ LowerCase(u) \in {<<"i", "n", "f">>,
                             <<"i", "n", "f", "i", "n", "i", "t", "y">>}
        \/ LowerCase(val) = <<"n", "a", "n">>
        \/ /\ AllDigits(whole \o frac)
           /\ AllDigits(Unsigned(expo))
           /\ \/ sig = <<"0">>
              \/ sci < 308
              \/ /\ sci = 308
                 /\ ~DigitsLeq(Float64Overflow,
                               [i \in 1..Len(Float64Overflow) |->
                                   IF i <= Len(sig) THEN sig[i] ELSE "0"])

\* AttributeFromString with strconv.ParseFloat tried before strconv.ParseInt
AttributeFromStringRealFirst(val) ==
    LET v == Trim(val, {" "})
    IN  IF Len(v) = 0 THEN [Type |-> "Error"]
        ELSE IF v[1] # "\"" /\ ParseFloatOk(v)
        THEN [Type |-> "Real", Value |-> v]
        ELSE IF v[1] # "\"" /\ ParseIntOk(v)
        THEN [Type |-> "Integer", Value |-> ParseIntValue(v)]
        ELSE [Type |-> "String", Value |-> Trim(v, {"\""})]

\* AttributeFromString(val)
AttributeFromString(val) ==
    LET v == Trim(val, {" "})
    IN  IF Len(v) = 0 THEN [Type |-> "Error"]
        ELSE IF v[1] # "\"" /\ ParseIntOk(v)
        THEN [Type |-> "Integer", Value |-> ParseIntValue(v)]
        ELSE IF v[1] # "\"" /\ ParseFloatOk(v)
        THEN [Type |-> "Real", Value |-> v]
        ELSE [Type |-> "String", Value |-> Trim(v, {"\""})]

\* ad[key] = ... only for a key the record does not have yet
SetAttributeKeepsFirst(ad, text) ==
    LET parts == SplitN2(text)
        key == Trim(parts[1], {" ", "\""})
    IN  [k \in (DOMAIN ad) \cup {key} |->
            IF k \in DOMAIN ad THEN ad[k] ELSE AttributeFromString(parts[2])]

\* ad[key] = AttributeFromString(parts[1]) with key = strings.Trim(parts[0], " \"")
SetAttribute(ad, text) ==
    LET parts == SplitN2(text)
        key == Trim(parts[1], {" ", "\""})
    IN  [k \in (DOMAIN ad) \cup {key} |->
            IF k = key THEN AttributeFromString(parts[2]) ELSE ad[k]]

EmptyAd == <<>>
NoErr == [kind |-> "none"]
InvalidAttribute(text) == [kind |-> "invalid classad attribute", text |-> text]
ScannerError(item) == [kind |-> "scanner error", cause |-> item]

\* the float64 of a token strconv.ParseFloat accepts is +Inf, -Inf or NaN
\* exactly for the tokens inf, infinity (signed or not) and nan
NotFinite(val) ==
    \/ LowerCase(Unsigned(val)) \in {<<"i", "n", "f">>,
                                     <<"i", "n", "f", "i", "n", "i", "t", "y">>}
    \/ LowerCase(val) = <<"n", "a", "n">>

UnsupportedValue(val) == [kind |-> "json: unsupported value", text |-> val]

\* Attribute.MarshalJSON(): json.Marshal(a.Value) on the int64, float64,
\* string or nil held by Value; encoding/json refuses a float64 that is an
\* infinity or NaN
MarshalJSON(a) ==
    IF a.Type \in {"Error", "Undefined"}
    THEN [err |-> NoErr, json |-> [kind |-> "null"]]
    ELSE IF a.Type = "Integer"
    THEN [err |-> NoErr, json |-> [kind |-> "number", text |-> a.Value]]
    ELSE IF a.Type = "Real"
    THEN IF NotFinite(a.Value)
         THEN [err |-> UnsupportedValue(a.Value), json |-> [kind |-> "none"]]
         ELSE [err |-> NoErr, json |-> [kind |-> "number", text |-> a.Value]]
    ELSE [err |-> NoErr,
          json |-> [kind |-> "string", text |-> <<"\"">> \o a.Value \o <<"\"">>]]

\* return nil, err
AbortReadKeepAds(ads, err) == [isNil |-> FALSE, ads |-> ads, err |-> err]

AbortRead(ads, err) == [isNil |-> TRUE, ads |-> <<>>, err |-> err]

\* ReadClassAds(r): the loop over scanner.Scan(), with ads and ad so far
RECURSIVE ReadLoop(_, _, _)
ReadLoop(items, ads, ad) ==
    LET scan == ScanResult(items)
    IN  IF scan.kind = "line"
        THEN IF scan.text = EmptyStr
             THEN IF DOMAIN ad # {}
                  THEN ReadLoop(Tail(items), Append(ads, ad), EmptyAd)
                  ELSE ReadLoop(Tail(items), ads, ad)
             ELSE IF Len(SplitN2(scan.text)) < 2
             THEN AbortRead(ads, InvalidAttribute(scan.text))
             ELSE ReadLoop(Tail(items), ads, SetAttribute(ad, scan.text))
        ELSE IF scan.kind = "err"
        THEN AbortRead(ads, ScannerError(scan.err))
        ELSE [isNil |-> FALSE,
              ads |-> IF DOMAIN ad # {} THEN Append(ads, ad) ELSE ads,
              err |-> NoErr]

ReadClassAds(items) == ReadLoop(items, <<>>, EmptyAd)

\* StreamClassAds between two sends.  Its position is "scan" (at
\* scanner.Scan()), "sendAd" (at ch <- ad in the loop), "sendErr" (at
\* errors <- for a malformed line), "sendScanErr" (at errors <- for
\* scanner.Err()), "sendLast" (at the last ch <- ad) or "end" (returning: the
\* deferred closes run).
StreamBegin == [pc |-> "scan", ad |-> EmptyAd, pend |-> NoErr]

\* errors <- fmt.Errorf("invalid classad attribute..."); continue
OnMalformedDropsAd(p, text) ==
    [pc |-> "sendErr", ad |-> EmptyAd, pend |-> InvalidAttribute(text)]

OnMalformed(p, text) ==
    [pc |-> "sendErr", ad |-> p.ad, pend |-> InvalidAttribute(text)]

\* after the loop, with no scanner error
AfterLoop(p) ==
    IF DOMAIN p.ad # {} THEN [p EXCEPT !.pc = "sendLast"] ELSE [p EXCEPT !.pc = "end"]

\* StreamClassAds reading on at a blank line, without ch <- ad
StreamScanNoSend(p, scan) ==
    IF scan.kind = "line"
    THEN IF scan.text = EmptyStr
         THEN p
         ELSE IF Len(SplitN2(scan.text)) < 2
         THEN OnMalformed(p, scan.text)
         ELSE [p EXCEPT !.ad = SetAttribute(p.ad, scan.text)]
    ELSE IF scan.kind = "err"
    THEN [p EXCEPT !.pc = "sendScanErr", !.pend = ScannerError(scan.err)]
    ELSE AfterLoop(p)

\* one scanner.Scan() and what follows it up to the next send
StreamScan(p, scan) ==
    IF scan.kind = "line"
    THEN IF scan.text = EmptyStr
         THEN IF DOMAIN p.ad # {} THEN [p EXCEPT !.pc = "sendAd"] ELSE p
         ELSE IF Len(SplitN2(scan.text)) < 2
         THEN OnMalformed(p, scan.text)
         ELSE [p EXCEPT !.ad = SetAttribute(p.ad, scan.text)]
    ELSE IF scan.kind = "err"
    THEN [p EXCEPT !.pc = "sendScanErr", !.pend = ScannerError(scan.err)]
    ELSE AfterLoop(p)

\* ch <- ad without ad = make(ClassAd) after it
AdSentKeepsAd(p) ==
    IF p.pc = "sendAd" THEN [p EXCEPT !.pc = "scan"]
    ELSE [p EXCEPT !.pc = "end"]

\* ch <- ad has been received
AdSent(p) ==
    IF p.pc = "sendAd" THEN [p EXCEPT !.pc = "scan", !.ad = EmptyAd]
    ELSE [p EXCEPT !.pc = "end"]

\* errors <- err has been received
ErrSent(p) ==
    IF p.pc = "sendErr" THEN [p EXCEPT !.pc = "scan", !.pend = NoErr]
    ELSE AfterLoop([p EXCEPT !.pend = NoErr])

\* StreamClassAds(r, ch, errors) on a reader of items with every send
\* received: what has been sent on the two channels when it returns
RECURSIVE StreamLoop(_, _, _)
StreamLoop(p, items, out) ==
    IF p.pc = "scan"
    THEN StreamLoop(StreamScan(p, ScanResult(items)),
                    IF Len(items) = 0 THEN items ELSE Tail(items), out)
    ELSE IF p.pc \in {"sendAd", "sendLast"}
    THEN StreamLoop(AdSent(p), items, [out EXCEPT !.ads = Append(@, p.ad)])
    ELSE IF p.pc \in {"sendErr", "sendScanErr"}
    THEN StreamLoop(ErrSent(p), items, [out EXCEPT !.errs = Append(@, p.pend)])
    ELSE out

StreamClassAds(items) == StreamLoop(StreamBegin, items, [ads |-> <<>>, errs |-> <<>>])

(***************************************************************************)
(* Execution: commandGetter and the process it runs.                       *)
(*                                                                         *)
(* A process behaviour is what the tool does once asked to run: whether    *)
(* it can be started, what it writes to its standard output and standard   *)
(* error, and its exit status.                                             *)
(***************************************************************************)
\* the bytes of a text: every line and its newline
RECURSIVE ByteLen(_)
ByteLen(items) ==
    IF Len(items) = 0 THEN 0 ELSE Len(Head(items)) + 1 + ByteLen(Tail(items))

NoSpan == [status |-> "unset"]

\* commandGetter with the error of cmd.Wait() dropped
commandGetterIgnoresExit(key, proc) ==
    LET d == decodeKey(key)
    IN  IF d.outcome = "error"
        THEN [err |-> [kind |-> "error decoding key"], bytes |-> <<>>,
              span |-> [status |-> "error"], ran |-> FALSE]
        ELSE IF d.outcome = "panic"
        THEN [err |-> [kind |-> "panic"], bytes |-> <<>>,
              span |-> NoSpan, ran |-> FALSE]
        ELSE IF ~proc.spawn
        THEN [err |-> [kind |-> "error creating command"], bytes |-> <<>>,
              span |-> [status |-> "error"], ran |-> FALSE]
        ELSE IF \E k \in 1..Len(proc.stdout) : proc.stdout[k] = ReadErr
        THEN [err |-> [kind |-> "error reading stdout"], bytes |-> <<>>,
              span |-> [status |-> "error"], ran |-> TRUE]
        ELSE [err |-> NoErr, bytes |-> proc.stdout, span |-> NoSpan, ran |-> TRUE]

\* commandGetter()(ctx, key, dest): the error returned, the bytes set in dest,
\* and what is recorded on the tracing span
commandGetter(key, proc) ==
    LET d == decodeKey(key)
    IN  IF d.outcome = "error"
        THEN [err |-> [kind |-> "error decoding key"], bytes |-> <<>>,
              span |-> [status |-> "error"], ran |-> FALSE]
        ELSE IF d.outcome = "panic"
        THEN [err |-> [kind |-> "panic"], bytes |-> <<>>,
              span |-> NoSpan, ran |-> FALSE]
        ELSE IF ~proc.spawn
        THEN [err |-> [kind |-> "error creating command"], bytes |-> <<>>,
              span |-> [status |-> "error"], ran |-> FALSE]
        ELSE IF \E k \in 1..Len(proc.stdout) : proc.stdout[k] = ReadErr
        THEN [err |-> [kind |-> "error reading stdout"], bytes |-> <<>>,
              span |-> [status |-> "error"], ran |-> TRUE]
        ELSE IF proc.exit # 0
        \* cmd.Wait()'s *exec.ExitError: its Stderr field is filled by
        \* Cmd.Output alone, the text read from the pipe goes to the span
        THEN [err |-> [kind |-> "exit status", code |-> proc.exit,
                       stderr |-> EmptyStr],
              bytes |-> <<>>,
              span |-> [status |-> "error", stdout |-> proc.stdout,
                        stderr |-> proc.stderr],
              ran |-> TRUE]
        ELSE [err |-> NoErr, bytes |-> proc.stdout, span |-> NoSpan, ran |-> TRUE]

\* the standard-error text an error value carries
StderrOf(err) == IF "stderr" \in DOMAIN err THEN err.stderr ELSE EmptyStr

\* c.cache != nil
UsesCacheNever(cmd) == FALSE

UsesCache(cmd) == cmd.cache

\* RunWithContext after the Get: parse the response, or return the error
RunResult(got) ==
    IF got.err # NoErr THEN [err |-> got.err, isNil |-> TRUE, ads |-> <<>>]
    ELSE ReadClassAds(got.bytes)

(***************************************************************************)
(* The cache group (github.com/golang/groupcache, with no peers): a main   *)
(* cache of at most cacheBytes bytes, least recently used evicted first,   *)
(* and a single flight per key.                                            *)
(***************************************************************************)
EntryBytes(e) == Len(e.key) + ByteLen(e.value)

RECURSIVE TotalBytes(_)
TotalBytes(entries) ==
    IF Len(entries) = 0 THEN 0
    ELSE EntryBytes(Head(entries)) + TotalBytes(Tail(entries))

CacheKeys(entries) == {entries[i].key : i \in 1..Len(entries)}

EntryOf(entries, key) ==
    entries[CHOOSE i \in 1..Len(entries) : entries[i].key = key]

Without(entries, key) ==
    SelectSeq(entries, LAMBDA e : e.key # key)

\* lru.Get: the entry moves to the front
Touch(entries, key) == <<EntryOf(entries, key)>> \o Without(entries, key)

\* removeOldest until the cache fits
RECURSIVE Evict(_, _)
Evict(entries, limit) ==
    IF Len(entries) > 0 /\ TotalBytes(entries) > limit
    THEN Evict(SubSeq(entries, 1, Len(entries) - 1), limit)
    ELSE entries

\* populateCache(key, value, &g.mainCache)
PopulateCache(entries, limit, e) ==
    IF limit = 0 THEN entries
    ELSE Evict(<<e>> \o Without(entries, e.key), limit)

(***************************************************************************)
(* SpecKey: a Command is built with the With* methods, then encoded at    *)
(* some clock reading, and the key is decoded or the Command is encoded    *)
(* once more at a later reading.                                           *)
(***************************************************************************)
ToolNames == {<<"q">>, attributeFormat}
StrValues == {<<"x">>}
ArgValues == {<<"x">>, attributeFormat, EmptyStr}
AttrValues == {<<"x">>, attributeFormat}
Limits == {-1, 0, 12}
Lifetimes == 0..MaxLifetime
Times == 0..MaxTime
GroupNames == {<<"g">>}

KeyStart ==
    /\ c \in {NewCommand(tool) : tool \in ToolNames}
    /\ enc = <<>>
    /\ dec = NoDecode

Building == enc = <<>>

WithPool(pool) ==
    /\ Building
    /\ c' = WithPoolOf(c, pool)
    /\ UNCHANGED <<enc, dec>>

WithName(name) ==
    /\ Building
    /\ c' = WithNameOf(c, name)
    /\ UNCHANGED <<enc, dec>>

WithLimit(limit) ==
    /\ Building
    /\ c' = WithLimitOf(c, limit)
    /\ UNCHANGED <<enc, dec>>

WithConstraint(constraint) ==
    /\ Building
    /\ c' = WithConstraintOf(c, constraint)
    /\ UNCHANGED <<enc, dec>>

WithAttribute(attribute) ==
    /\ Building
    /\ Len(c.Attributes) < MaxAttrs
    /\ c' = WithAttributeOf(c, attribute)
    /\ UNCHANGED <<enc, dec>>

WithArg(arg) ==
    /\ Building
    /\ Len(c.Args) < MaxArgs
    /\ c' = WithArgOf(c, arg)
    /\ UNCHANGED <<enc, dec>>

WithCache(group, life) ==
    /\ Building
    /\ c' = WithCacheOf(c, group, life)
    /\ UNCHANGED <<enc, dec>>

\* key := c.encodeKey() at clock reading now: once for the getter, or twice
\* for two queries, the second at a later reading
EncodeKey(now) ==
    /\ Len(enc) < 2
    /\ dec = NoDecode
    /\ \A k \in 1..Len(enc) : enc[k].t < now
    /\ enc' = Append(enc, [t |-> now, key |-> encodeKey(c, now)])
    /\ UNCHANGED <<c, dec>>

\* c, err := decodeKey(key) on the key encoded
DecodeKey ==
    /\ Len(enc) = 1
    /\ dec = NoDecode
    /\ dec' = decodeKey(enc[1].key)
    /\ UNCHANGED <<c, enc>>

KeyIdle ==
    /\ c = NewCommand(EmptyStr)
    /\ enc = <<>>
    /\ dec = NoDecode

(***************************************************************************)
(* SpecCopy: a Command c built with some WithAttribute and WithArg calls,  *)
(* cc = c.Copy() at some point, and builder calls on either.               *)
(***************************************************************************)
EditValues == {<<"x">>, <<"y">>}
NoCommand == [Command |-> "none"]
NoHist == [Attributes |-> <<>>, Args |-> <<>>]

\* c after n WithAttribute and m WithArg calls on NewCommand
RECURSIVE Built(_, _, _)
Built(st, n, m) ==
    IF n > 0 THEN Built(WithAttributeAt(st.cmd, <<"x">>, st.heap), n - 1, m)
    ELSE IF m > 0 THEN Built(WithArgAt(st.cmd, <<"x">>, st.heap), 0, m - 1)
    ELSE st

CopyStart ==
    \E n \in 0..MaxBuilt, m \in 0..MaxBuilt :
        LET st == Built([cmd |-> NewCommandAt(<<"q">>), heap |-> <<>>], n, m)
        IN  /\ heap = st.heap
            /\ objs = [c |-> st.cmd, cc |-> NoCommand]
            /\ hist = [c |-> [Attributes |-> [i \in 1..n |-> <<"x">>],
                              Args |-> [i \in 1..m |-> <<"x">>]],
                       cc |-> NoHist]
            /\ ncalls = 0

Exists(who) == objs[who] # NoCommand
MayCall(who) == Exists(who) /\ ncalls < MaxEdits

\* cc := c.Copy()
CopyCall ==
    /\ ~Exists("cc")
    /\ \E r \in {Copy(objs.c, heap)} :
        /\ heap' = r.heap
        /\ objs' = [objs EXCEPT !.cc = r.cmd]
    /\ hist' = [hist EXCEPT !.cc = hist.c]
    /\ UNCHANGED ncalls

PoolCall(who, pool) ==
    /\ MayCall(who)
    /\ objs' = [objs EXCEPT ![who] = WithPoolOf(@, pool)]
    /\ ncalls' = ncalls + 1
    /\ UNCHANGED <<heap, hist>>

NameCall(who, name) ==
    /\ MayCall(who)
    /\ objs' = [objs EXCEPT ![who] = WithNameOf(@, name)]
    /\ ncalls' = ncalls + 1
    /\ UNCHANGED <<heap, hist>>

LimitCall(who, limit) ==
    /\ MayCall(who)
    /\ objs' = [objs EXCEPT ![who] = WithLimitOf(@, limit)]
    /\ ncalls' = ncalls + 1
    /\ UNCHANGED <<heap, hist>>

ConstraintCall(who, constraint) ==
    /\ MayCall(who)
    /\ objs' = [objs EXCEPT ![who] = WithConstraintOf(@, constraint)]
    /\ ncalls' = ncalls + 1
    /\ UNCHANGED <<heap, hist>>

AttributeCall(who, attribute) ==
    /\ MayCall(who)
    /\ \E r \in {WithAttributeAt(objs[who], attribute, heap)} :
        /\ heap' = r.heap
        /\ objs' = [objs EXCEPT ![who] = r.cmd]
    /\ hist' = [hist EXCEPT ![who].Attributes = Append(@, attribute)]
    /\ ncalls' = ncalls + 1

ArgCall(who, arg) ==
    /\ MayCall(who)
    /\ \E r \in {WithArgAt(objs[who], arg, heap)} :
        /\ heap' = r.heap
        /\ objs' = [objs EXCEPT ![who] = r.cmd]
    /\ hist' = [hist EXCEPT ![who].Args = Append(@, arg)]
    /\ ncalls' = ncalls + 1

CopyIdle ==
    /\ heap = <<>>
    /\ objs = [c |-> NoCommand, cc |-> NoCommand]
    /\ hist = [c |-> NoHist, cc |-> NoHist]
    /\ ncalls = 0

(***************************************************************************)
(* SpecRead: ReadClassAds on a reader of at most MaxLines items.           *)
(***************************************************************************)
LineValues ==
    { EmptyStr,
      <<"a", "=", "1">>,
      <<"a", "=", "2">>,
      <<"b", " ", "=", " ", "\"", "s", "\"">>,
      <<"x">>,
      <<" ">>,
      <<"CR">> }
ItemValues == LineValues \cup {TooLong, ReadErr}

RECURSIVE SeqsUpTo(_, _)
SeqsUpTo(S, n) ==
    IF n = 0 THEN {<<>>}
    ELSE LET shorter == SeqsUpTo(S, n - 1)
         IN  shorter \cup {Append(q, x) : q \in shorter, x \in S}

NoResult == [isNil |-> FALSE, ads |-> <<>>, err |-> [kind |-> "not called"]]

ReadStart ==
    /\ rin \in SeqsUpTo(ItemValues, MaxLines)
    /\ rres = NoResult

\* ads, err := ReadClassAds(r)
ReadAll ==
    /\ rres = NoResult
    /\ rres' = ReadClassAds(rin)
    /\ UNCHANGED rin

ReadIdle ==
    /\ rin = <<>>
    /\ rres = NoResult

(***************************************************************************)
(* SpecAttr: AttributeFromString on one token.                             *)
(***************************************************************************)
TokChars == {" ", "\"", "0", "1", "-", ".", "e", "a"}
SpecialTokens ==
    { MaxInt64Digits, MinInt64Digits, <<"-">> \o MinInt64Digits,
      <<"-">> \o SubSeq(MinInt64Digits, 1, 18) \o <<"9">>,
      Float64Overflow,
      <<"1", "e", "3", "0", "8">>, <<"2", "e", "3", "0", "8">>,
      <<"i", "n", "f">>, <<"N", "a", "N">>,
      <<"\"", "\"", "a", "\"", "\"">> }
NoAttr == [Type |-> "none"]

AttrStart ==
    /\ tok \in SeqsUpTo(TokChars, MaxTok) \cup SpecialTokens
    /\ attr = NoAttr

\* attr := AttributeFromString(tok)
Classify ==
    /\ attr = NoAttr
    /\ attr' = AttributeFromString(tok)
    /\ UNCHANGED tok

AttrIdle ==
    /\ tok = <<>>
    /\ attr = NoAttr

(***************************************************************************)
(* SpecCache: MaxRuns callers call RunWithContext, each once, with a       *)
(* cached Command, a cached Command with one more argument, or a Command   *)
(* without a cache, while the clock advances.                              *)
(***************************************************************************)
Callers == 1..MaxRuns
NextCaller(i) == call[i].pc = "idle" /\ \A j \in 1..(i-1) : call[j].pc # "idle"
\* WithCache(pool, group, cacheBytes, cacheLifetime): no cache bytes, room
\* for one response, room for all; keys bucketed by one tick (less than a
\* second), with room for all
CacheConfigs == {<<0, 0>>, <<0, 20>>, <<0, 64>>, <<1, 64>>}
StderrText == <<"b", "o", "o", "m">>
OutA == << <<"a", "=", "1">> >>
OutB == << <<"a", "=", "2">> >>

ProcBehaviours ==
    [spawn : {TRUE}, stdout : {OutA, OutB}, stderr : {EmptyStr}, exit : {0}]
    \cup [spawn : {TRUE}, stdout : {OutA}, stderr : {StderrText}, exit : {1}]
    \cup [spawn : {FALSE}, stdout : {<<>>}, stderr : {EmptyStr}, exit : {0}]

NotRun == [spawn |-> FALSE, stdout |-> <<>>, stderr |-> EmptyStr, exit |-> 0]

CachedCmd == WithCacheOf(NewCommand(<<"q">>), <<"g">>, lifetime)
CachedCmdArg == WithArgOf(CachedCmd, <<"x">>)
PlainCmd == NewCommand(<<"q">>)
CmdOf(n) == CASE n = 1 -> CachedCmd [] n = 2 -> CachedCmdArg [] n = 3 -> PlainCmd
CmdIds == {1, 2, 3}
\* the Command caller i runs: the first caller the Command itself, every
\* later caller a Copy() of it
CmdFor(i, n) == IF i = 1 THEN CmdOf(n) ELSE CopyOf(CmdOf(n))

NoWant == [known |-> FALSE]
IdleCall ==
    [pc |-> "idle", cmd |-> 0, key |-> EmptyStr, t0 |-> 0, early |-> FALSE,
     loadEarly |-> FALSE, sawSucc |-> FALSE, want |-> NoWant, origin |-> "none",
     res |-> NoResult, hits |-> 0, exec |-> 0, proc |-> NotRun]

ExecIds(key) == {id \in 1..Len(execLog) : execLog[id].key = key}
\* an execution for the key made through the cache group has completed
ExecDone(key) == \E id \in ExecIds(key) : execLog[id].done /\ execLog[id].group

WantOf(key) ==
    IF key \in DOMAIN retained THEN [known |-> TRUE, ads |-> retained[key]]
    ELSE NoWant

\* the two histories after a step that leaves the main cache as entries and
\* in which the Runs of the callers in finished return res for key
Fits(key, bytes) ==
    EntryBytes([key |-> key, value |-> bytes]) <= cacheBytes

KeptAfter(entries) ==
    {k \in DOMAIN retained : ~(k \in CacheKeys(mainCache) /\ k \notin CacheKeys(entries))}

RetainedAfter(entries, cached, key, bytes, res) ==
    LET kept == KeptAfter(entries)
        add == cached /\ res.err = NoErr /\ Fits(key, bytes)
    IN  [k \in kept \cup (IF add THEN {key} ELSE {}) |->
            IF add /\ k = key THEN res.ads ELSE retained[k]]

FirstAdsAfter(cached, key, res) ==
    IF cached /\ res.err = NoErr /\ key \notin DOMAIN firstAds
    THEN [k \in DOMAIN firstAds \cup {key} |->
            IF k = key THEN res.ads ELSE firstAds[k]]
    ELSE firstAds

CacheStart ==
    /\ clock = 0
    /\ \E cfg \in CacheConfigs : lifetime = cfg[1] /\ cacheBytes = cfg[2]
    /\ call = [i \in Callers |-> IdleCall]
    /\ mainCache = <<>>
    /\ nhit = 0
    /\ flight = {}
    /\ execLog = <<>>
    /\ firstAds = <<>>
    /\ retained = <<>>

\* the clock readings a call made now may see: time does not go back, and
\* encodeKey reads the clock only when cacheLifetime > 0
Readings == IF lifetime > 0 THEN clock..MaxClock ELSE {clock}

\* RunWithContext of a Command with a cache: key := c.encodeKey(), then
\* group.Get looks the key up in the main cache
RunCached(i, n, now) ==
    LET key == encodeKey(CmdFor(i, n), now)
        r == [IdleCall EXCEPT !.pc = "load", !.cmd = n, !.key = key, !.t0 = now,
                              !.early = ~ExecDone(key),
                              !.sawSucc = key \in DOMAIN firstAds,
                              !.want = WantOf(key)]
        hit == key \in CacheKeys(mainCache)
        e == EntryOf(mainCache, key)
        res == RunResult([err |-> NoErr, bytes |-> e.value])
    IN  /\ NextCaller(i)
        /\ UsesCache(CmdFor(i, n))
        /\ clock' = now
        /\ IF hit
           THEN /\ nhit' = nhit + 1
                /\ mainCache' = Touch(mainCache, key)
                /\ call' = [call EXCEPT ![i] =
                       [r EXCEPT !.pc = "done", !.origin = "hit", !.res = res,
                                 !.hits = @ + 1, !.exec = e.exec]]
                /\ retained' = RetainedAfter(mainCache', TRUE, key, e.value, res)
                /\ firstAds' = FirstAdsAfter(TRUE, key, res)
           ELSE /\ call' = [call EXCEPT ![i] = r]
                /\ UNCHANGED <<nhit, mainCache, retained, firstAds>>
        /\ UNCHANGED <<lifetime, cacheBytes, flight, execLog>>

\* RunWithContext of a Command without a cache: key := c.encodeKey(), then the
\* getter is called directly: commandGetter()(ctx, key, ...)
RunDirect(i, n, now) ==
    LET key == encodeKey(CmdFor(i, n), now)
    IN  /\ NextCaller(i)
        /\ ~UsesCache(CmdFor(i, n))
        /\ clock' = now
        /\ execLog' = Append(execLog, [key |-> key, done |-> FALSE, group |-> FALSE])
        /\ call' = [call EXCEPT ![i] =
               [IdleCall EXCEPT !.pc = "exec", !.cmd = n, !.key = key,
                                !.t0 = now, !.origin = "direct",
                                !.early = ~ExecDone(key),
                                !.loadEarly = ~ExecDone(key),
                                !.sawSucc = key \in DOMAIN firstAds,
                                !.want = WantOf(key),
                                !.exec = Len(execLog) + 1]]
        /\ UNCHANGED <<lifetime, cacheBytes, mainCache, nhit, flight,
                       firstAds, retained>>

\* group.load: join the load in flight for the key, or be the one that loads:
\* look the key up once more, and run the getter if it is still missing
LoadEnter(i) ==
    LET r == call[i]
        hit == r.key \in CacheKeys(mainCache)
        e == EntryOf(mainCache, r.key)
        res == RunResult([err |-> NoErr, bytes |-> e.value])
        early == ~ExecDone(r.key)
    IN  /\ r.pc = "load"
        /\ IF r.key \in flight
           THEN /\ call' = [call EXCEPT ![i] =
                       [r EXCEPT !.pc = "wait", !.origin = "shared",
                                 !.loadEarly = early]]
                /\ UNCHANGED <<nhit, mainCache, flight, execLog, retained, firstAds>>
           ELSE IF hit
           THEN /\ nhit' = nhit + 1
                /\ mainCache' = Touch(mainCache, r.key)
                /\ call' = [call EXCEPT ![i] =
                       [r EXCEPT !.pc = "done", !.origin = "recheck", !.res = res,
                                 !.hits = @ + 1, !.exec = e.exec,
                                 !.loadEarly = early]]
                /\ retained' = RetainedAfter(mainCache', TRUE, r.key, e.value, res)
                /\ firstAds' = FirstAdsAfter(TRUE, r.key, res)
                /\ UNCHANGED <<flight, execLog>>
           ELSE /\ flight' = flight \cup {r.key}
                /\ execLog' = Append(execLog,
                       [key |-> r.key, done |-> FALSE, group |-> TRUE])
                /\ call' = [call EXCEPT ![i] =
                       [r EXCEPT !.pc = "exec", !.origin = "owner",
                                 !.exec = Len(execLog) + 1,
                                 !.loadEarly = early]]
                /\ UNCHANGED <<nhit, mainCache, retained, firstAds>>
        /\ UNCHANGED <<clock, lifetime, cacheBytes>>

\* the getter returns: the process has behaved as proc.  A load stores a
\* successful response in the main cache and hands its result to every caller
\* waiting on it.
GetterReturn(i, proc) ==
    LET r == call[i]
        got == commandGetter(r.key, proc)
        res == RunResult(got)
        cached == CmdOf(r.cmd).cache
        entries == IF r.origin = "owner" /\ got.err = NoErr
                   THEN PopulateCache(mainCache, cacheBytes,
                            [key |-> r.key, value |-> got.bytes, exec |-> r.exec])
                   ELSE mainCache
        sharers == IF r.origin = "owner"
                   THEN {j \in Callers : call[j].pc = "wait" /\ call[j].key = r.key}
                   ELSE {}
    IN  /\ r.pc = "exec"
        /\ execLog' = [execLog EXCEPT ![r.exec] = [@ EXCEPT !.done = TRUE]]
        /\ mainCache' = entries
        /\ flight' = IF r.origin = "owner" THEN flight \ {r.key} ELSE flight
        /\ call' = [j \in Callers |->
               IF j = i \/ j \in sharers
               THEN [call[j] EXCEPT !.pc = "done", !.res = res, !.exec = r.exec,
                                    !.proc = proc]
               ELSE call[j]]
        /\ retained' = RetainedAfter(entries, cached, r.key, got.bytes, res)
        /\ firstAds' = FirstAdsAfter(cached, r.key, res)
        /\ UNCHANGED <<clock, lifetime, cacheBytes, nhit>>

CacheIdle ==
    /\ clock = 0
    /\ lifetime = 0
    /\ cacheBytes = 0
    /\ call = <<>>
    /\ mainCache = <<>>
    /\ nhit = 0
    /\ flight = {}
    /\ execLog = <<>>
    /\ firstAds = <<>>
    /\ retained = <<>>

(***************************************************************************)
(* SpecStream: one StreamWithContext call on unbuffered channels, with a   *)
(* consumer that receives from both channels (a select on the two, as in   *)
(* the tests), while the tool writes at most MaxOut items and exits, and   *)
(* the context may be cancelled.                                           *)
(***************************************************************************)
StreamItems == {<<"a", "=", "1">>, EmptyStr, <<"x">>, TooLong, ReadErr}
Killed == -1

StreamInputs ==
    {r \in [cache : BOOLEAN, pipeOk : BOOLEAN, spawn : BOOLEAN,
            stdout : SeqsUpTo(StreamItems, MaxOut), exit : {0, 1}] :
        /\ r.cache => r.pipeOk
        /\ (~r.pipeOk \/ ~r.spawn) => (r.stdout = <<>> /\ r.exit = 0)}

\* the Command of the call with a cache, and its key (cacheLifetime is 0: the
\* key does not depend on the clock)
StreamCmd == WithCacheOf(NewCommand(<<"q">>), <<"g">>, 0)
StreamKey == encodeKey(StreamCmd, 0)

NoProcess == [state |-> "none", written |-> 0, status |-> 0]
\* a channel: what the consumer has received from it, whether it is closed,
\* and how many times close() has been called on it
OpenChan == [recv |-> <<>>, closed |-> FALSE, closes |-> 0]

\* close(ch)
CloseSkipped(chan) == chan

Close(chan) == [chan EXCEPT !.closed = TRUE, !.closes = @ + 1]

CacheError(err) == [kind |-> "error getting response from cache", cause |-> err]
PipeError == [kind |-> "error opening command pipe"]
StartError == [kind |-> "error running command"]
ExitError(status) == [kind |-> "exit status", code |-> status, stderr |-> EmptyStr]

StreamStart ==
    /\ sin \in StreamInputs
    /\ sp = [pc |-> "start", pos |-> 0, ad |-> EmptyAd, pend |-> NoErr,
             waitErr |-> NoErr]
    /\ sproc = NoProcess
    /\ ctx = "live"
    /\ ch = OpenChan
    /\ errors = OpenChan

\* what the reader has to give: the lines written and not yet scanned, and
\* the end of the input once the writer is gone
ReaderReady ==
    sp.pos < sproc.written \/ (sproc.state = "exited" /\ sp.pos = sproc.written)
ReaderRest == SubSeq(sin.stdout, sp.pos + 1, sproc.written)

\* the position after StreamClassAds has moved to p: when it returns, the
\* deferred closes have run and StreamWithContext goes on to cmd.Wait()
Resume(p) ==
    [sp EXCEPT !.pc = IF p.pc = "end" THEN (IF sin.cache THEN "returned" ELSE "wait")
                      ELSE p.pc,
               !.ad = p.ad, !.pend = p.pend]
Parser == [pc |-> sp.pc, ad |-> sp.ad, pend |-> sp.pend]
\* close() at every step of StreamClassAds, not only when it returns
ClosedAtEveryStep(chan, p) == Close(chan)

ClosedIfEnd(chan, p) == IF p.pc = "end" THEN Close(chan) ELSE chan

\* StreamWithContext going on to cmd.Start() when cmd.StdoutPipe() has failed
StartedIgnoresPipe(input, live) ==
    IF input.cache
    THEN LET got == commandGetter(StreamKey,
                        [spawn |-> input.spawn /\ live,
                         stdout |-> input.stdout, stderr |-> EmptyStr,
                         exit |-> input.exit])
         IN  IF got.err # NoErr
             THEN [pc |-> "fail", pend |-> CacheError(got.err), proc |-> NoProcess]
             ELSE [pc |-> "scan", pend |-> NoErr,
                   proc |-> [state |-> "exited", written |-> Len(got.bytes),
                             status |-> 0]]
    ELSE IF ~input.spawn \/ ~live
    THEN [pc |-> "fail", pend |-> StartError, proc |-> NoProcess]
    ELSE [pc |-> "scan", pend |-> NoErr,
          proc |-> [state |-> "running", written |-> 0, status |-> 0]]

\* StreamWithContext up to StreamClassAds or to the send of a start-up error:
\* where it stands, the error to send, and the process
Started(input, live) ==
    IF input.cache
    THEN LET got == commandGetter(StreamKey,
                        [spawn |-> input.spawn /\ live,
                         stdout |-> input.stdout, stderr |-> EmptyStr,
                         exit |-> input.exit])
         IN  IF got.err # NoErr
             THEN [pc |-> "fail", pend |-> CacheError(got.err), proc |-> NoProcess]
             ELSE [pc |-> "scan", pend |-> NoErr,
                   proc |-> [state |-> "exited", written |-> Len(got.bytes),
                             status |-> 0]]
    ELSE IF ~input.pipeOk
    THEN [pc |-> "fail", pend |-> PipeError, proc |-> NoProcess]
    ELSE IF ~input.spawn \/ ~live
    THEN [pc |-> "fail", pend |-> StartError, proc |-> NoProcess]
    ELSE [pc |-> "scan", pend |-> NoErr,
          proc |-> [state |-> "running", written |-> 0, status |-> 0]]

StreamCall ==
    /\ sp.pc = "start"
    /\ \E r \in {Started(sin, ctx = "live")} :
           /\ sp' = [sp EXCEPT !.pc = r.pc, !.pend = r.pend]
           /\ sproc' = r.proc
    /\ UNCHANGED <<sin, ctx, ch, errors>>

\* errors <- err; close(errors); close(ch); return
DeliverFailure ==
    /\ sp.pc = "fail"
    /\ errors' = Close([errors EXCEPT !.recv = Append(@, sp.pend)])
    /\ ch' = Close(ch)
    /\ sp' = [sp EXCEPT !.pc = "returned", !.pend = NoErr]
    /\ UNCHANGED <<sin, sproc, ctx>>

\* the tool writes its next line
ProcWrite ==
    /\ sproc.state = "running"
    /\ sproc.written < Len(sin.stdout)
    /\ sproc' = [sproc EXCEPT !.written = @ + 1]
    /\ UNCHANGED <<sin, sp, ctx, ch, errors>>

\* the tool exits
ProcExit ==
    /\ sproc.state = "running"
    /\ sproc.written = Len(sin.stdout)
    /\ sproc' = [sproc EXCEPT !.state = "exited", !.status = sin.exit]
    /\ UNCHANGED <<sin, sp, ctx, ch, errors>>

\* the caller cancels the context: exec.CommandContext kills a running process
Cancel ==
    /\ ctx = "live"
    /\ sp.pc # "returned"
    /\ ctx' = "cancelled"
    /\ sproc' = IF sproc.state = "running"
                THEN [sproc EXCEPT !.state = "exited", !.status = Killed]
                ELSE sproc
    /\ UNCHANGED <<sin, sp, ch, errors>>

\* scanner.Scan() returns, and StreamClassAds runs up to its next send or to
\* its return
Scan ==
    /\ sp.pc = "scan"
    /\ ReaderReady
    /\ \E scan \in {ScanResult(ReaderRest)} : \E p \in {StreamScan(Parser, scan)} :
           /\ sp' = [Resume(p) EXCEPT
                        !.pos = IF sp.pos < sproc.written THEN @ + 1 ELSE @]
           /\ errors' = ClosedIfEnd(errors, p)
           /\ ch' = ClosedIfEnd(ch, p)
    /\ UNCHANGED <<sin, sproc, ctx>>

\* ch <- ad meets the consumer's receive
HandoffAd ==
    /\ sp.pc \in {"sendAd", "sendLast"}
    /\ \E p \in {AdSent(Parser)} :
           /\ sp' = Resume(p)
           /\ errors' = ClosedIfEnd(errors, p)
           /\ ch' = ClosedIfEnd([ch EXCEPT !.recv = Append(@, sp.ad)], p)
    /\ UNCHANGED <<sin, sproc, ctx>>

\* errors <- err meets the consumer's receive
HandoffErr ==
    /\ sp.pc \in {"sendErr", "sendScanErr"}
    /\ \E p \in {ErrSent(Parser)} :
           /\ sp' = Resume(p)
           /\ errors' = ClosedIfEnd([errors EXCEPT !.recv = Append(@, sp.pend)], p)
           /\ ch' = ClosedIfEnd(ch, p)
    /\ UNCHANGED <<sin, sproc, ctx>>

\* cmd.Wait() returns once the process has exited; its error is dropped
Wait ==
    /\ sp.pc = "wait"
    /\ sproc.state = "exited"
    /\ sp' = [sp EXCEPT !.pc = "returned",
                        !.waitErr = IF sproc.status # 0 THEN ExitError(sproc.status)
                                    ELSE NoErr]
    /\ UNCHANGED <<sin, sproc, ctx, ch, errors>>

StreamIdle ==
    /\ sin = <<>>
    /\ sp = <<>>
    /\ sproc = NoProcess
    /\ ctx = "live"
    /\ ch = OpenChan
    /\ errors = OpenChan

(***************************************************************************)
(* SpecPipe: commandGetter from cmd.Start() on, with a tool that writes    *)
(* up to MaxWrites blocks, each to its standard output or to its standard  *)
(* error, and exits.  A pipe holds PipeCapacity blocks; a write to a full  *)
(* pipe blocks until the reader has taken a block, and a read of an empty  *)
(* pipe blocks until a block is written or the write end is closed.        *)
(***************************************************************************)
PipeNames == {"stdout", "stderr"}
NoGetter == [pc |-> "none", written |-> 0, state |-> "none",
             outPipe |-> 0, errPipe |-> 0, resp |-> 0, stderr |-> 0]

\* cmd.StdoutPipe(), cmd.StderrPipe() and cmd.Start() have succeeded
PipeStart ==
    /\ writes \in SeqsUpTo(PipeNames, MaxWrites)
    /\ getter = [pc |-> "readStdout", written |-> 0, state |-> "running",
                 outPipe |-> 0, errPipe |-> 0, resp |-> 0, stderr |-> 0]

\* the tool writes its next block, if the pipe has room for it
ToolWrite ==
    /\ getter.state = "running"
    /\ getter.written < Len(writes)
    /\ IF writes[getter.written + 1] = "stdout"
       THEN /\ getter.outPipe < PipeCapacity
            /\ getter' = [getter EXCEPT !.written = @ + 1, !.outPipe = @ + 1]
       ELSE /\ getter.errPipe < PipeCapacity
            /\ getter' = [getter EXCEPT !.written = @ + 1, !.errPipe = @ + 1]
    /\ UNCHANGED writes

\* the tool exits: the write ends of both pipes are closed
ToolExit ==
    /\ getter.state = "running"
    /\ getter.written = Len(writes)
    /\ getter' = [getter EXCEPT !.state = "exited"]
    /\ UNCHANGED writes

\* resp, err := io.ReadAll(out): one read, which takes a block or meets the end
ReadStdout ==
    /\ getter.pc = "readStdout"
    /\ \/ /\ getter.outPipe > 0
          /\ getter' = [getter EXCEPT !.outPipe = @ - 1, !.resp = @ + 1]
       \/ /\ getter.outPipe = 0
          /\ getter.state = "exited"
          /\ getter' = [getter EXCEPT !.pc = "readStderr"]
    /\ UNCHANGED writes

\* stderrText, err := io.ReadAll(stderr)
ReadStderr ==
    /\ getter.pc = "readStderr"
    /\ \/ /\ getter.errPipe > 0
          /\ getter' = [getter EXCEPT !.errPipe = @ - 1, !.stderr = @ + 1]
       \/ /\ getter.errPipe = 0
          /\ getter.state = "exited"
          /\ getter' = [getter EXCEPT !.pc = "wait"]
    /\ UNCHANGED writes

\* cmd.Wait() returns, and commandGetter returns after it
WaitReturn ==
    /\ getter.pc = "wait"
    /\ getter.state = "exited"
    /\ getter' = [getter EXCEPT !.pc = "returned"]
    /\ UNCHANGED writes

PipeIdle ==
    /\ writes = <<>>
    /\ getter = NoGetter

(***************************************************************************)
(* The specifications.                                                     *)
(***************************************************************************)
KeyInit == KeyStart /\ ReadIdle /\ CacheIdle /\ StreamIdle /\ CopyIdle /\ AttrIdle /\ PipeIdle
KeyNext ==
    \/ \E pool \in StrValues : WithPool(pool) /\ UNCHANGED <<rvars, cvars, svars, yvars, avars, pvars>>
    \/ \E name \in StrValues : WithName(name) /\ UNCHANGED <<rvars, cvars, svars, yvars, avars, pvars>>
    \/ \E limit \in Limits : WithLimit(limit) /\ UNCHANGED <<rvars, cvars, svars, yvars, avars, pvars>>
    \/ \E constraint \in StrValues :
           WithConstraint(constraint) /\ UNCHANGED <<rvars, cvars, svars, yvars, avars, pvars>>
    \/ \E attribute \in AttrValues :
           WithAttribute(attribute) /\ UNCHANGED <<rvars, cvars, svars, yvars, avars, pvars>>
    \/ \E arg \in ArgValues : WithArg(arg) /\ UNCHANGED <<rvars, cvars, svars, yvars, avars, pvars>>
    \/ \E group \in GroupNames, life \in Lifetimes :
           WithCache(group, life) /\ UNCHANGED <<rvars, cvars, svars, yvars, avars, pvars>>
    \/ \E now \in Times : EncodeKey(now) /\ UNCHANGED <<rvars, cvars, svars, yvars, avars, pvars>>
    \/ DecodeKey /\ UNCHANGED <<rvars, cvars, svars, yvars, avars, pvars>>
SpecKey == KeyInit /\ [][KeyNext]_vars

CopyInit == CopyStart /\ KeyIdle /\ ReadIdle /\ CacheIdle /\ StreamIdle /\ AttrIdle /\ PipeIdle
CopyNext ==
    \/ CopyCall /\ UNCHANGED <<kvars, rvars, cvars, svars, avars, pvars>>
    \/ \E who \in {"c", "cc"}, pool \in StrValues :
           PoolCall(who, pool) /\ UNCHANGED <<kvars, rvars, cvars, svars, avars, pvars>>
    \/ \E who \in {"c", "cc"}, name \in StrValues :
           NameCall(who, name) /\ UNCHANGED <<kvars, rvars, cvars, svars, avars, pvars>>
    \/ \E who \in {"c", "cc"}, limit \in Limits :
           LimitCall(who, limit) /\ UNCHANGED <<kvars, rvars, cvars, svars, avars, pvars>>
    \/ \E who \in {"c", "cc"}, constraint \in StrValues :
           ConstraintCall(who, constraint)
               /\ UNCHANGED <<kvars, rvars, cvars, svars, avars, pvars>>
    \/ \E who \in {"c", "cc"}, attribute \in EditValues :
           AttributeCall(who, attribute)
               /\ UNCHANGED <<kvars, rvars, cvars, svars, avars, pvars>>
    \/ \E who \in {"c", "cc"}, arg \in EditValues :
           ArgCall(who, arg) /\ UNCHANGED <<kvars, rvars, cvars, svars, avars, pvars>>
SpecCopy == CopyInit /\ [][CopyNext]_vars

AttrInit == AttrStart /\ KeyIdle /\ ReadIdle /\ CacheIdle /\ StreamIdle /\ CopyIdle /\ PipeIdle
AttrNext == Classify /\ UNCHANGED <<kvars, rvars, cvars, svars, yvars, pvars>>
SpecAttr == AttrInit /\ [][AttrNext]_vars

ReadInit == ReadStart /\ KeyIdle /\ CacheIdle /\ StreamIdle /\ CopyIdle /\ AttrIdle /\ PipeIdle
ReadNext == ReadAll /\ UNCHANGED <<kvars, cvars, svars, yvars, avars, pvars>>
SpecRead == ReadInit /\ [][ReadNext]_vars

CacheInit == CacheStart /\ KeyIdle /\ ReadIdle /\ StreamIdle /\ CopyIdle /\ AttrIdle /\ PipeIdle
CacheNext ==
    \/ \E i \in Callers, n \in CmdIds, now \in Readings :
           RunCached(i, n, now) /\ UNCHANGED <<kvars, rvars, svars, yvars, avars, pvars>>
    \/ \E i \in Callers, n \in CmdIds, now \in Readings :
           RunDirect(i, n, now) /\ UNCHANGED <<kvars, rvars, svars, yvars, avars, pvars>>
    \/ \E i \in Callers : LoadEnter(i) /\ UNCHANGED <<kvars, rvars, svars, yvars, avars, pvars>>
    \/ \E i \in Callers, proc \in ProcBehaviours :
           GetterReturn(i, proc) /\ UNCHANGED <<kvars, rvars, svars, yvars, avars, pvars>>
SpecCache == CacheInit /\ [][CacheNext]_vars

StreamInit == StreamStart /\ KeyIdle /\ ReadIdle /\ CacheIdle /\ CopyIdle /\ AttrIdle /\ PipeIdle
StreamProgress ==
    \/ StreamCall /\ UNCHANGED <<kvars, rvars, cvars, yvars, avars, pvars>>
    \/ DeliverFailure /\ UNCHANGED <<kvars, rvars, cvars, yvars, avars, pvars>>
    \/ ProcWrite /\ UNCHANGED <<kvars, rvars, cvars, yvars, avars, pvars>>
    \/ ProcExit /\ UNCHANGED <<kvars, rvars, cvars, yvars, avars, pvars>>
    \/ Scan /\ UNCHANGED <<kvars, rvars, cvars, yvars, avars, pvars>>
    \/ HandoffAd /\ UNCHANGED <<kvars, rvars, cvars, yvars, avars, pvars>>
    \/ HandoffErr /\ UNCHANGED <<kvars, rvars, cvars, yvars, avars, pvars>>
    \/ Wait /\ UNCHANGED <<kvars, rvars, cvars, yvars, avars, pvars>>
StreamNext ==
    \/ StreamCall /\ UNCHANGED <<kvars, rvars, cvars, yvars, avars, pvars>>
    \/ DeliverFailure /\ UNCHANGED <<kvars, rvars, cvars, yvars, avars, pvars>>
    \/ ProcWrite /\ UNCHANGED <<kvars, rvars, cvars, yvars, avars, pvars>>
    \/ ProcExit /\ UNCHANGED <<kvars, rvars, cvars, yvars, avars, pvars>>
    \/ Cancel /\ UNCHANGED <<kvars, rvars, cvars, yvars, avars, pvars>>
    \/ Scan /\ UNCHANGED <<kvars, rvars, cvars, yvars, avars, pvars>>
    \/ HandoffAd /\ UNCHANGED <<kvars, rvars, cvars, yvars, avars, pvars>>
    \/ HandoffErr /\ UNCHANGED <<kvars, rvars, cvars, yvars, avars, pvars>>
    \/ Wait /\ UNCHANGED <<kvars, rvars, cvars, yvars, avars, pvars>>
PipeInit == PipeStart /\ KeyIdle /\ ReadIdle /\ CacheIdle /\ StreamIdle /\ CopyIdle /\ AttrIdle
PipeNext ==
    \/ ToolWrite /\ UNCHANGED <<kvars, rvars, cvars, svars, yvars, avars>>
    \/ ToolExit /\ UNCHANGED <<kvars, rvars, cvars, svars, yvars, avars>>
    \/ ReadStdout /\ UNCHANGED <<kvars, rvars, cvars, svars, yvars, avars>>
    \/ ReadStderr /\ UNCHANGED <<kvars, rvars, cvars, svars, yvars, avars>>
    \/ WaitReturn /\ UNCHANGED <<kvars, rvars, cvars, svars, yvars, avars>>
\* the tool and the goroutine in commandGetter run whenever they can
SpecPipe == PipeInit /\ [][PipeNext]_vars /\ WF_vars(PipeNext)

SpecStream == StreamInit /\ [][StreamNext]_vars
\* the scheduler runs every goroutine and the tool process that can take a
\* step; nothing makes the caller cancel
SpecStreamLive == SpecStream /\ WF_vars(StreamProgress)

(***************************************************************************)
(* The claims.                                                             *)
(***************************************************************************)

\* A line is malformed when the scanner's text for it is not empty and holds
\* no "=".
Malformed(item) ==
    IsLine(item) /\ DropCR(item) # EmptyStr /\ IndexEq(DropCR(item)) = 0

\* C4: for every Command whose tool name and argument values hold no key
\* separator, decodeKey(encodeKey(c)) succeeds and gives a Command with the
\* same tool name and the same MakeArgs(), element for element.
C4_DecodeEncodeRoundTrip ==
    dec # NoDecode =>
        /\ dec.outcome = "ok"
        /\ dec.cmd.Command = c.Command
        /\ MakeArgs(dec.cmd) = MakeArgs(c)

\* The round trip for every tool name other than the attribute-format marker.
KeyRoundTripUnlessToolIsMarker ==
    (dec # NoDecode /\ c.Command # attributeFormat) =>
        /\ dec.outcome = "ok"
        /\ dec.cmd.Command = c.Command
        /\ MakeArgs(dec.cmd) = MakeArgs(c)

\* C8: ReadClassAds on an input with at least one malformed line returns an
\* error and no records at all (nil), wherever the malformed line is.
C8_BatchMalformedAborts ==
    (rres # NoResult /\ \E i \in 1..Len(rin) : Malformed(rin[i])) =>
        /\ rres.err # NoErr
        /\ rres.isNil
        /\ rres.ads = <<>>

\* C8's case: a complete well-formed record, a blank line, then a malformed
\* line; ReadClassAds has returned.
C8_Witness ==
    /\ rres # NoResult
    /\ Len(rin) = 3
    /\ rin[1] = <<"a", "=", "1">>
    /\ rin[2] = EmptyStr
    /\ rin[3] = <<"x">>
    /\ rres.err = InvalidAttribute(<<"x">>)

\* the caller's Run has returned, and its Command has a cache
Returned(i) == call[i].pc = "done" /\ CmdOf(call[i].cmd).cache

\* C1: when callers Run through the same cache group with Commands of the same
\* key, and all their calls start before any execution for that key has
\* completed, the tool is executed once and all receive that execution's
\* result.
C1_StartedEarlyOneExecution ==
    \A i, j \in DOMAIN call :
        (/\ Returned(i) /\ Returned(j)
         /\ call[i].key = call[j].key
         /\ call[i].early /\ call[j].early) =>
            /\ call[i].exec = call[j].exec
            /\ call[i].res = call[j].res

\* C1 as amended: when all the calls have entered the group's load for the key
\* before any execution for that key has completed, the tool is executed once
\* and all receive that execution's result.
C1_LoadingEarlyOneExecution ==
    \A i, j \in DOMAIN call :
        (/\ Returned(i) /\ Returned(j)
         /\ call[i].key = call[j].key
         /\ call[i].loadEarly /\ call[j].loadEarly) =>
            /\ call[i].exec = call[j].exec
            /\ call[i].res = call[j].res
            /\ call[i].res = RunResult(commandGetter(call[i].key, call[i].proc))

\* C1's case: two callers with the same key were both in the load before the
\* one execution completed; one ran the tool, the other shared its records.
C1_Witness ==
    /\ Returned(1) /\ Returned(2)
    /\ call[1].key = call[2].key
    /\ call[1].loadEarly /\ call[2].loadEarly
    /\ call[1].origin = "owner" /\ call[2].origin = "shared"
    /\ call[2].res.err = NoErr
    /\ Len(call[2].res.ads) = 1

\* C2: for every cacheLifetime d > 0, two calls of the same Command made in
\* the same d-wide bucket encode to the same key, and two made in different
\* buckets encode to different keys.
C2_SameBucketIffSameKey ==
    \A i, j \in DOMAIN call :
        (/\ call[i].pc # "idle" /\ call[j].pc # "idle"
         /\ call[i].cmd = call[j].cmd
         /\ CmdOf(call[i].cmd).cache
         /\ lifetime > 0) =>
            ((Truncate(call[i].t0, lifetime) = Truncate(call[j].t0, lifetime))
                <=> (call[i].key = call[j].key))

\* C3: after a Run through a cache group has completed successfully, a later
\* Run with the same key returns the same records without executing the tool
\* again, and the hit counter grows by one for it.
C3_RepeatIsHit ==
    \A i \in DOMAIN call :
        (Returned(i) /\ call[i].sawSucc) =>
            /\ call[i].origin = "hit"
            /\ call[i].res.err = NoErr
            /\ call[i].res.ads = firstAds[call[i].key]
            /\ call[i].hits = 1

\* C3 as amended: after a Run through a cache group has completed successfully
\* with an output the group's capacity let it store and has not evicted since,
\* a later Run with the same key returns the same records without executing
\* the tool again, and the hit counter grows by one for it.
C3_RepeatIsHitWhileStored ==
    \A i \in DOMAIN call :
        (Returned(i) /\ call[i].want.known) =>
            /\ call[i].origin = "hit"
            /\ call[i].res.err = NoErr
            /\ call[i].res.ads = call[i].want.ads
            /\ call[i].hits = 1
            /\ execLog[call[i].exec].done
            /\ execLog[call[i].exec].key = call[i].key

\* C3's case: the first caller ran the tool and its output was stored; the
\* second caller, starting later with the same key, had a hit.
C3_Witness ==
    /\ Returned(1) /\ Returned(2)
    /\ call[1].origin = "owner"
    /\ call[1].res.err = NoErr
    /\ call[2].want.known
    /\ call[2].origin = "hit"
    /\ call[2].key = call[1].key
    /\ nhit = 1
    /\ Len(execLog) = 1

\* C10: when the tool cannot be started or exits with a non-zero status, the
\* error Run returns (without a cache, or on a miss) carries the text the
\* process wrote to its standard error.
C10_ErrorCarriesStderr ==
    \A i \in DOMAIN call :
        (/\ call[i].pc = "done"
         /\ call[i].origin \in {"owner", "direct"}
         /\ (~call[i].proc.spawn \/ call[i].proc.exit # 0)) =>
            /\ call[i].res.err # NoErr
            /\ StderrOf(call[i].res.err) = call[i].proc.stderr

\* what StreamClassAds was given to read, once the writer is gone
StreamInput == SubSeq(sin.stdout, 1, sproc.written)
BothClosed == ch.closed /\ errors.closed
\* StreamClassAds has run on the whole input and has returned
StreamedAll ==
    /\ BothClosed
    /\ sp # <<>> /\ sp.pc \in {"wait", "returned"}
    /\ sproc.state = "exited"
MalformedLines(items) == {k \in 1..Len(items) : Malformed(items[k])}
WithoutMalformed(items) == SelectSeq(items, LAMBDA item : ~Malformed(item))

\* C5: in the streaming pipeline without a cache, whenever the tool exits
\* with a non-zero status, an error has been delivered on the error channel
\* by the time the two channels are closed.
C5_NonZeroExitDeliversError ==
    (/\ BothClosed
     /\ sin # <<>> /\ ~sin.cache
     /\ sproc.state = "exited" /\ sproc.status > 0) =>
        errors.recv # <<>>

\* C6: when the context of StreamWithContext is cancelled while the tool is
\* running, the process is killed and an error has been delivered on the error
\* channel by the time the two channels are closed.
C6_CancelDeliversError ==
    (/\ BothClosed
     /\ ctx = "cancelled"
     /\ sproc.status = Killed) =>
        errors.recv # <<>>

\* C7: for an input in which exactly one line is non-blank and lacks "=",
\* StreamClassAds sends exactly one error and delivers exactly the records it
\* would deliver for the input without that line.
C7_OneMalformedOneError ==
    (StreamedAll /\ Cardinality(MalformedLines(StreamInput)) = 1) =>
        /\ Len(errors.recv) = 1
        /\ ch.recv = StreamClassAds(WithoutMalformed(StreamInput)).ads

\* C7 as amended: for an input that the scanner reads to its end (no line
\* longer than ScanBufferSize, no read error) and in which exactly one line is
\* non-blank and lacks "=", StreamClassAds sends exactly one error and
\* delivers exactly the records it would deliver for the input without that
\* line.
C7_OneMalformedOneErrorIfReadable ==
    (/\ StreamedAll
     /\ \A k \in 1..Len(StreamInput) : IsLine(StreamInput[k])
     /\ Cardinality(MalformedLines(StreamInput)) = 1) =>
        /\ Len(errors.recv) = 1
        /\ errors.recv[1].kind = "invalid classad attribute"
        /\ ch.recv = StreamClassAds(WithoutMalformed(StreamInput)).ads

\* C7's case: a malformed line in the middle of a record; the error and the
\* whole record have been received.
C7_Witness ==
    /\ StreamedAll
    /\ StreamInput = << <<"a", "=", "1">>, <<"x">>, EmptyStr >>
    /\ errors.recv = <<InvalidAttribute(<<"x">>)>>
    /\ Len(ch.recv) = 1
    /\ DOMAIN ch.recv[1] = {<<"a">>}

Rendered(who) == MakeArgs(Deref(objs[who], heap))

\* C11: from cc = c.Copy() on, a step that calls no method on c leaves
\* c.MakeArgs() as it was, a step that calls no method on cc leaves
\* cc.MakeArgs() as it was, and no backing array of Attributes or Args is
\* used by both.
C11_CopyIsIndependent ==
    [][Exists("cc")' =>
          /\ \A who \in {"c", "cc"} :
                 objs'[who] = objs[who] => Rendered(who)' = Rendered(who)
          /\ \A f \in {objs'.c.Attributes.arr, objs'.c.Args.arr} :
                 f # 0 => f \notin {objs'.cc.Attributes.arr, objs'.cc.Args.arr}
      ]_vars

\* C11's case: c had spare capacity when it was copied, and since then both
\* c and cc have taken a further attribute, each its own.
C11_Witness ==
    /\ Exists("cc")
    /\ Len(hist.c.Attributes) = MaxBuilt + 1
    /\ Len(hist.cc.Attributes) = MaxBuilt + 1
    /\ hist.c.Attributes # hist.cc.Attributes
    /\ Rendered("c") # Rendered("cc")


\* a flag and its value when the option is in force, else nothing
Option(flag, value, inForce) == IF inForce THEN <<flag, value>> ELSE <<>>

\* C12: MakeArgs renders, in this order, "-pool" and the pool iff the pool is
\* not empty, "-name" and the name iff the name is not empty, "-limit" and the
\* limit in decimal iff the limit is above 0, "-constraint" and the constraint
\* iff the constraint is not empty, the values given to WithArg in call order,
\* then "-af:lrng" and the values given to WithAttribute in call order if there
\* are any, else "-long"; Commands with equal fields render the same list.
C12_MakeArgsOrder ==
    /\ \A who \in {"c", "cc"} :
           Exists(who) =>
               Rendered(who) =
                   Option(<<"-", "p", "o", "o", "l">>, objs[who].Pool,
                          objs[who].Pool # <<>>)
                   \o Option(<<"-", "n", "a", "m", "e">>, objs[who].Name,
                             objs[who].Name # <<>>)
                   \o Option(<<"-", "l", "i", "m", "i", "t">>,
                             IF objs[who].Limit = 12 THEN <<"1", "2">> ELSE <<"?">>,
                             objs[who].Limit > 0)
                   \o Option(<<"-", "c", "o", "n", "s", "t", "r", "a", "i", "n", "t">>,
                             objs[who].Constraint, objs[who].Constraint # <<>>)
                   \o hist[who].Args
                   \o (IF hist[who].Attributes # <<>>
                       THEN <<attributeFormat>> \o hist[who].Attributes
                       ELSE <<<<"-", "l", "o", "n", "g">>>>)
    /\ (Exists("cc") /\ Deref(objs.c, heap) = Deref(objs.cc, heap)) =>
           Rendered("c") = Rendered("cc")

\* C12's case: a Command with a pool, two or more extra arguments that
\* differ and an attribute.
C12_Witness ==
    /\ objs.c.Pool # <<>>
    /\ Len(hist.c.Args) >= 2
    /\ hist.c.Args[1] # hist.c.Args[Len(hist.c.Args)]
    /\ Len(hist.c.Attributes) >= 1


\* The input of ReadClassAds, as the scanner would give its lines.
Blank(i) == IsLine(rin[i]) /\ DropCR(rin[i]) = EmptyStr
\* the first lines of the maximal runs of consecutive non-blank lines
RunStarts == {i \in 1..Len(rin) : ~Blank(i) /\ (i = 1 \/ Blank(i - 1))}
RunEnd(i) ==
    CHOOSE j \in i..Len(rin) :
        /\ \A k \in i..j : ~Blank(k)
        /\ j = Len(rin) \/ Blank(j + 1)
NthRun(n) ==
    CHOOSE i \in RunStarts : Cardinality({j \in RunStarts : j < i}) = n - 1
KeyOfLine(i) ==
    Trim(SubSeq(DropCR(rin[i]), 1, IndexEq(DropCR(rin[i])) - 1), {" ", "\""})
ValueOfLine(i) ==
    AttributeFromString(
        SubSeq(DropCR(rin[i]), IndexEq(DropCR(rin[i])) + 1, Len(DropCR(rin[i]))))
\* the record of the run that starts at line i: each key of the run with the
\* value of the last line of the run that has the key
RunRecord(i) ==
    [key \in {KeyOfLine(k) : k \in i..RunEnd(i)} |->
        ValueOfLine(CHOOSE k \in i..RunEnd(i) :
            /\ KeyOfLine(k) = key
            /\ \A l \in (k + 1)..RunEnd(i) : KeyOfLine(l) # key)]
OneRecordPerRun ==
    /\ rres.err = NoErr
    /\ ~rres.isNil
    /\ Len(rres.ads) = Cardinality(RunStarts)
    /\ \A n \in 1..Len(rres.ads) : rres.ads[n] = RunRecord(NthRun(n))
    /\ \A n \in 1..Len(rres.ads) : DOMAIN rres.ads[n] # {}

\* C13: for every input in which each non-blank line holds "=", ReadClassAds
\* returns one record per maximal run of consecutive non-blank lines, in input
\* order, each with every key of its run mapped to the value of the last line
\* of the run that has the key, and no empty record.
C13_OneRecordPerRun ==
    (rres # NoResult /\ \A i \in 1..Len(rin) : ~Malformed(rin[i])) =>
        OneRecordPerRun

\* C13 for the inputs the scanner reads to their end: no line longer than
\* ScanBufferSize and no read failure.
C13_OneRecordPerRunIfReadable ==
    (/\ rres # NoResult
     /\ \A i \in 1..Len(rin) : IsLine(rin[i]) /\ ~Malformed(rin[i])) =>
        OneRecordPerRun

\* C13's case: a block that sets one key twice, a blank line and a second
\* block; ReadClassAds has returned two records.
C13_Witness ==
    /\ rin = << <<"a", "=", "1">>, <<"a", "=", "2">>, EmptyStr,
                <<"b", " ", "=", " ", "\"", "s", "\"">> >>
    /\ rres # NoResult
    /\ Len(rres.ads) = 2


\* Tokens with the kind the Go library gives them.
KnownKinds ==
    { <<EmptyStr, "Error">>, <<<<" ">>, "Error">>, <<<<" ", " ">>, "Error">>,
      <<<<"1">>, "Integer">>, <<<<"-", "1">>, "Integer">>,
      <<<<"0", "1">>, "Integer">>, <<<<" ", "1", " ">>, "Integer">>,
      <<MaxInt64Digits, "Integer">>, <<<<"-">> \o MinInt64Digits, "Integer">>,
      <<MinInt64Digits, "Real">>,
      <<<<"-">> \o SubSeq(MinInt64Digits, 1, 18) \o <<"9">>, "Real">>,
      <<<<"1", ".", "0">>, "Real">>, <<<<".", "1">>, "Real">>,
      <<<<"1", ".">>, "Real">>, <<<<"1", "e", "1">>, "Real">>,
      <<<<"-", ".", "1">>, "Real">>, <<<<"1", "e", "3", "0", "8">>, "Real">>,
      <<<<"i", "n", "f">>, "Real">>, <<<<"N", "a", "N">>, "Real">>,
      <<<<"2", "e", "3", "0", "8">>, "String">>, <<Float64Overflow, "String">>,
      <<<<"-">>, "String">>, <<<<".">>, "String">>, <<<<"e">>, "String">>,
      <<<<"1", "e">>, "String">>, <<<<"e", "1">>, "String">>,
      <<<<"1", " ", "1">>, "String">>, <<<<"-", "-", "1">>, "String">>,
      <<<<"1", "a">>, "String">>, <<<<"a">>, "String">>,
      <<<<"\"", "1", "\"">>, "String">>, <<<<"\"">>, "String">>,
      <<<<"\"", "1">>, "String">> }

\* C14: AttributeFromString gives exactly one of Error, Integer, Real and
\* String, never Undefined: Error iff the token is empty once its spaces are
\* trimmed; Integer, with the value, iff it does not start with a double quote
\* and is a base-10 signed 64-bit integer; Real iff it does not start with a
\* double quote, is no such integer and is a floating-point number; String in
\* every other case.
C14_ClassifiesEveryToken ==
    attr # NoAttr =>
        LET v == Trim(tok, {" "})
            unquoted == v # <<>> /\ Head(v) # "\""
            int == unquoted /\ ParseIntOk(v)
            real == unquoted /\ ~ParseIntOk(v) /\ ParseFloatOk(v)
        IN  /\ attr.Type \in {"Error", "Integer", "Real", "String"}
            /\ attr.Type = "Error" <=> v = <<>>
            /\ attr.Type = "Integer" <=> int
            /\ attr.Type = "Real" <=> real
            /\ attr.Type = "String" <=> (v # <<>> /\ ~int /\ ~real)
            /\ int => /\ StripZeros(Unsigned(attr.Value)) = StripZeros(Unsigned(v))
                      /\ (Head(attr.Value) = "-") =
                             (Head(v) = "-" /\ StripZeros(Unsigned(v)) # <<"0">>)
            /\ \A known \in KnownKinds : tok = known[1] => attr.Type = known[2]

\* C14's case: a token of each kind has been classified; here the decimal
\* integer beyond the 64-bit range that is no float64 either.
C14_Witness ==
    /\ tok = Float64Overflow
    /\ attr # NoAttr
    /\ attr.Type = "String"

\* one leading and one trailing double quote taken off, when both are there
OneLayerOff(v) ==
    IF Len(v) >= 2 /\ Head(v) = "\"" /\ v[Len(v)] = "\""
    THEN SubSeq(v, 2, Len(v) - 1)
    ELSE v

\* C15: for a token classified as String, the value is the token (its spaces
\* trimmed) without one leading and one trailing double quote when it has
\* both, every other character kept.
C15_StringDropsOneQuoteLayer ==
    (attr # NoAttr /\ attr.Type = "String") =>
        attr.Value = OneLayerOff(Trim(tok, {" "}))


\* C16: decodeKey returns a decode error exactly when the key has fewer
\* than two fields; on every key of two or more fields it completes and
\* returns a Command whose tool name is the second field, with the fields
\* before the "-af:lrng" marker as Args and those after it as Attributes.
C16_DecodeFailsOnlyOnShortKey ==
    dec # NoDecode =>
        LET parts == Split(enc[1].key, keySeparator)
            rest == SubSeq(parts, 3, Len(parts))
            mark == IndexAny(rest, {attributeFormat})
        IN  /\ dec.outcome = "error" <=> Len(parts) < 2
            /\ Len(parts) >= 2 =>
                   /\ dec.outcome = "ok"
                   /\ dec.cmd.Command = parts[2]
                   /\ mark > 0 =>
                          /\ dec.cmd.Args = SubSeq(rest, 1, mark - 1)
                          /\ dec.cmd.Attributes = SubSeq(rest, mark + 1, Len(rest))

\* C17: with cacheLifetime 0 the key starts with the sentinel "0" and is the
\* same at every clock reading, so a later query of the same Command asks for
\* the key of the stored entry.
C17_Lifetime0KeyIgnoresTime ==
    c.cacheLifetime = 0 =>
        \A i \in 1..Len(enc) :
            /\ Split(enc[i].key, keySeparator)[1] = <<"0">>
            /\ \A j \in 1..Len(enc) : enc[j].key = enc[i].key

\* C17's case: a Command with a cache of lifetime 0 encoded at two clock
\* readings that are in different seconds.
C17_Witness ==
    /\ c.cache
    /\ c.cacheLifetime = 0
    /\ Len(enc) = 2
    /\ enc[1].t \div TicksPerSecond < enc[2].t \div TicksPerSecond


\* What StreamWithContext without a cache delivers, with every send received
\* and no cancellation, when the tool starts and writes out: what
\* StreamClassAds makes of the output; the exit status plays no part.
UncachedDelivers(out) == StreamClassAds(out)

\* the uncached calls of SpecStream deliver just that
UncachedStreamDelivers ==
    (/\ BothClosed
     /\ sin # <<>> /\ ~sin.cache /\ sin.pipeOk /\ sin.spawn
     /\ ctx = "live") =>
        /\ ch.recv = UncachedDelivers(sin.stdout).ads
        /\ errors.recv = UncachedDelivers(sin.stdout).errs

\* a Run through the cache that ran the tool returns what a Run of the same
\* Command without a cache returns when the tool behaves the same
RunSameWithCache ==
    \A i, j \in DOMAIN call :
        (/\ call[i].pc = "done" /\ call[i].cmd = 1 /\ call[i].origin = "owner"
         /\ call[j].pc = "done" /\ call[j].cmd = 3 /\ call[j].origin = "direct"
         /\ call[i].proc = call[j].proc) =>
            call[i].res = call[j].res

\* C18: a Stream through the cache that misses delivers, for the same output
\* and exit status of the tool, the records that the Stream without a cache
\* delivers, and an error iff that one delivers an error.
C18_StreamSameWithCache ==
    (/\ BothClosed
     /\ sin # <<>> /\ sin.cache /\ sin.spawn
     /\ \A k \in 1..Len(sin.stdout) : sin.stdout[k] # ReadErr
     /\ ctx = "live") =>
        /\ ch.recv = UncachedDelivers(sin.stdout).ads
        /\ (errors.recv = <<>>) = (UncachedDelivers(sin.stdout).errs = <<>>)


ScannerErrorReported ==
    \E k \in 1..Len(errors.recv) : errors.recv[k].kind = "scanner error"

\* C19: once StreamClassAds has reported a scanner error on the error channel,
\* no record is delivered on the record channel any more.
C19_NoRecordAfterScannerError ==
    [][ScannerErrorReported => ch.recv' = ch.recv]_vars

OversizedLines(items) == {k \in 1..Len(items) : items[k] = TooLong}
WithoutOversized(items) == SelectSeq(items, LAMBDA item : item # TooLong)

\* C20, streaming: for an output with one line longer than ScanBufferSize and
\* every other line read and well-formed, one error is delivered and the
\* records are those of the output without that line, the ones after it
\* included.
C20_StreamContinuesAfterOversized ==
    (/\ StreamedAll
     /\ ctx = "live"
     /\ Cardinality(OversizedLines(sin.stdout)) = 1
     /\ \A k \in 1..Len(sin.stdout) :
            sin.stdout[k] # ReadErr /\ ~Malformed(sin.stdout[k])) =>
        /\ Len(errors.recv) = 1
        /\ ch.recv = StreamClassAds(WithoutOversized(sin.stdout)).ads

\* in batch mode a line longer than ScanBufferSize gives an error and no
\* records
BatchOversizedAborts ==
    (rres # NoResult /\ OversizedLines(rin) # {}) =>
        rres.err # NoErr /\ rres.isNil /\ rres.ads = <<>>


\* the tool could not be started, its output could not be read, or it exited
\* with a non-zero status
ProcFailed(proc) ==
    \/ ~proc.spawn
    \/ proc.exit # 0
    \/ \E k \in 1..Len(proc.stdout) : proc.stdout[k] = ReadErr

\* a Run through the cache whose load ran the tool, and the tool failed
FailedLoad(i) ==
    /\ Returned(i)
    /\ call[i].origin = "owner"
    /\ ProcFailed(call[i].proc)

\* C21: when the execution made on a cache miss fails, the get returns the
\* error, no entry of the cache comes from that execution, the get has made
\* one execution, and a get for the same key that starts after it, with no
\* successful execution for the key so far, runs the tool again.
C21_FailedMissStoresNothing ==
    \A i \in DOMAIN call :
        FailedLoad(i) =>
            /\ call[i].res.err # NoErr
            /\ call[i].res.isNil
            /\ \A k \in 1..Len(mainCache) : mainCache[k].exec # call[i].exec
            /\ execLog[call[i].exec].done
            /\ Cardinality({id \in ExecIds(call[i].key) : execLog[id].group})
                   = Cardinality({j \in DOMAIN call :
                                     /\ call[j].key = call[i].key
                                     /\ call[j].origin = "owner"})
            /\ \A j \in DOMAIN call :
                   (/\ Returned(j) /\ j # i
                    /\ call[j].key = call[i].key
                    /\ ~call[j].early
                    /\ call[i].key \notin DOMAIN firstAds
                    /\ call[j].res.err = NoErr \/ call[j].origin # "shared") =>
                       /\ call[j].origin = "owner"
                       /\ call[j].exec # call[i].exec

\* C21's case: the first caller's load ran the tool, which exited with status
\* 1; the second caller asked for the same key afterwards and ran it again.
C21_Witness ==
    /\ FailedLoad(1)
    /\ call[1].proc.exit = 1
    /\ Returned(2)
    /\ call[2].key = call[1].key
    /\ ~call[2].early
    /\ call[2].origin = "owner"
    /\ Len(execLog) = 2
    /\ mainCache = <<>>


\* the JSON value the claim gives to an attribute of a kind
JSONKindOf(type) ==
    IF type \in {"Integer", "Real"} THEN "number"
    ELSE IF type = "String" THEN "string"
    ELSE "null"

\* C22: the JSON projection of a parsed attribute is a JSON number for an
\* Integer or a Real, a JSON string for a String, and null for an Undefined
\* or an Error.
C22_JSONScalarOfKind ==
    attr # NoAttr =>
        /\ MarshalJSON(attr).err = NoErr
        /\ MarshalJSON(attr).json.kind = JSONKindOf(attr.Type)

\* the same for every attribute but a Real that is an infinity or NaN
JSONScalarIfFinite ==
    (attr # NoAttr /\ ~(attr.Type = "Real" /\ NotFinite(attr.Value))) =>
        /\ MarshalJSON(attr).err = NoErr
        /\ MarshalJSON(attr).json.kind = JSONKindOf(attr.Type)


\* the call cannot obtain output: the cache get fails, the stdout pipe cannot
\* be opened, or the process cannot be started
NoOutputAtAll ==
    \/ sin.cache /\ ProcFailed([spawn |-> sin.spawn, stdout |-> sin.stdout,
                                exit |-> sin.exit])
    \/ ~sin.cache /\ (~sin.pipeOk \/ ~sin.spawn)

\* the error of the start-up failure
StartUpError ==
    IF sin.cache
    THEN CacheError(commandGetter(StreamKey,
                        [spawn |-> sin.spawn, stdout |-> sin.stdout,
                         stderr |-> EmptyStr, exit |-> sin.exit]).err)
    ELSE IF ~sin.pipeOk THEN PipeError ELSE StartError

\* C23: when StreamWithContext cannot obtain output at all, nothing is sent
\* or closed before it sends the error, and when it has returned the consumer
\* has received that one error and no record, and both channels are closed.
C23_StartFailureOneError ==
    NoOutputAtAll =>
        IF sp.pc = "returned"
        THEN /\ Len(errors.recv) = 1
             /\ errors.recv[1].kind = StartUpError.kind
             /\ ctx = "live" => errors.recv[1] = StartUpError
             /\ ch.recv = <<>>
             /\ errors.closed /\ ch.closed
        ELSE /\ sp.pc \in {"start", "fail"}
             /\ errors = OpenChan /\ ch = OpenChan

\* C23's case: the get from the cache has failed on the tool's exit status 1,
\* and the call has returned.
C23_Witness ==
    /\ sin.cache /\ sin.exit = 1
    /\ sp.pc = "returned"
    /\ errors.recv = <<CacheError(ExitError(1))>>

\* the same for a stdout pipe that cannot be opened
PipeFailureReturned ==
    /\ ~sin.cache /\ ~sin.pipeOk
    /\ sp.pc = "returned"
    /\ errors.recv = <<PipeError>>


\* every item of the input is a line within the scanner's buffer, and every
\* line that is not blank holds '='
WellFormedInput(items) ==
    \A i \in 1..Len(items) : IsLine(items[i]) /\ ~Malformed(items[i])

\* C24: on an input whose non-blank lines all hold '=' and whose lines all
\* fit the scanner's buffer, StreamClassAds sends on the record channel the
\* records ReadClassAds returns, in the same order, and sends no error.
C24_StreamEqualsBatch ==
    (rres # NoResult /\ WellFormedInput(rin)) =>
        /\ rres.err = NoErr
        /\ ~rres.isNil
        /\ StreamClassAds(rin).ads = rres.ads
        /\ StreamClassAds(rin).errs = <<>>

\* C24's case: two blocks with different keys and a blank line between them;
\* both readers give the two records.
C24_Witness ==
    /\ rin = << <<"a", "=", "1">>, EmptyStr,
                <<"b", " ", "=", " ", "\"", "s", "\"">> >>
    /\ rres # NoResult
    /\ Len(rres.ads) = 2
    /\ StreamClassAds(rin).ads = rres.ads


\* the items the scanner has consumed
Consumed == SubSeq(sin.stdout, 1, sp.pos)

\* a line that sets an attribute
SetsAttribute(item) ==
    IsLine(item) /\ DropCR(item) # EmptyStr /\ ~Malformed(item)

\* the blank lines that close a record: an attribute has been set since the
\* blank line before
ClosingLines(items) ==
    {k \in 1..Len(items) :
        /\ IsLine(items[k]) /\ DropCR(items[k]) = EmptyStr
        /\ \E j \in 1..(k - 1) :
               /\ SetsAttribute(items[j])
               /\ \A m \in (j + 1)..(k - 1) : DropCR(items[m]) # EmptyStr}

\* the loop over scanner.Scan() has ended
LoopEnded == sp.pc \in {"sendScanErr", "sendLast", "wait", "returned"}

\* the records the producer has completed: those closed by a blank line it has
\* consumed, and the one open when its loop ended
ParsedRecords ==
    Cardinality(ClosingLines(Consumed))
        + (IF LoopEnded /\ DOMAIN sp.ad # {} THEN 1 ELSE 0)

\* C25: the streaming producer never has more than one completed record the
\* consumer has not received (the channel is unbuffered), and it consumes an
\* input item only when the consumer has received every completed record.
C25_AtMostOneUndelivered ==
    /\ [](ParsedRecords - Len(ch.recv) \in {0, 1})
    /\ [][sp'.pos # sp.pos => ParsedRecords = Len(ch.recv)]_vars

\* C25's case: the producer has completed its second record while the
\* consumer holds the first.
C25_Witness ==
    /\ sp.pc = "sendLast"
    /\ ParsedRecords = 2
    /\ Len(ch.recv) = 1


\* C27: on every path of StreamWithContext and StreamClassAds close() is
\* called at most once on each channel, exactly once on each by the time the
\* call has returned, and nothing is sent on a channel that has been closed.
C27_ClosedOnceNoSendAfter ==
    /\ [](/\ ch.closes <= 1 /\ errors.closes <= 1
          /\ ch.closed <=> ch.closes = 1
          /\ errors.closed <=> errors.closes = 1
          /\ sp.pc = "returned" => ch.closes = 1 /\ errors.closes = 1)
    /\ [][/\ ch'.recv # ch.recv => ~ch.closed
          /\ errors'.recv # errors.recv => ~errors.closed]_vars

\* C27's case: StreamClassAds has sent a record and an error and has returned
\* through its deferred closes.
C27_Witness ==
    /\ sp.pc = "returned"
    /\ Len(ch.recv) > 0 /\ Len(errors.recv) > 0
    /\ ch.closes = 1 /\ errors.closes = 1

\* the same for the start-up failure, which closes the channels itself
FailureClosedOnce ==
    /\ sp.pc = "returned"
    /\ sproc = NoProcess
    /\ ch.closes = 1 /\ errors.closes = 1


\* C26: commandGetter returns for every tool that writes a finite amount to
\* its standard output and standard error, in any order, and exits.
C26_GetterReturns == <>(getter.pc = "returned")

\* the blocks the tool writes to its standard error
StderrBlocks == Cardinality({k \in 1..Len(writes) : writes[k] = "stderr"})

\* commandGetter returns when the tool's standard error fits the pipe
ReturnsIfStderrFits ==
    (StderrBlocks <= PipeCapacity) => <>(getter.pc = "returned")

\* the tool is blocked writing to its full standard-error pipe while
\* commandGetter is blocked reading its empty standard output
PipeDeadlock ==
    /\ getter.pc = "readStdout" /\ getter.outPipe = 0
    /\ getter.state = "running"
    /\ getter.written < Len(writes)
    /\ writes[getter.written + 1] = "stderr"
    /\ getter.errPipe = PipeCapacity


\* the Commands one builder call away from cmd
OneCallFrom(cmd) ==
    {cmd}
    \cup {WithPoolOf(cmd, pool) : pool \in StrValues \cup {EmptyStr}}
    \cup {WithNameOf(cmd, name) : name \in StrValues \cup {EmptyStr}}
    \cup {WithLimitOf(cmd, limit) : limit \in Limits}
    \cup {WithConstraintOf(cmd, constraint) : constraint \in StrValues \cup {EmptyStr}}
    \cup {WithAttributeOf(cmd, attribute) : attribute \in AttrValues}
    \cup {WithArgOf(cmd, arg) : arg \in ArgValues}

\* other queries to compare c with: the same builder calls on any tool, and
\* one more builder call
OtherQueries(cmd) ==
    {[cmd EXCEPT !.Command = tool] : tool \in ToolNames} \cup OneCallFrom(cmd)

\* the bucket marker of a key: its first field
BucketMarker(key) == Split(key, keySeparator)[1]

\* C28: the key c was encoded to (at the last clock reading) equals the key of
\* another query in the same bucket exactly when the two have the same tool
\* name and the same MakeArgs() list, and two keys of c itself with the same
\* bucket marker are equal.
C28_KeyInjective ==
    /\ (dec # NoDecode /\ enc[1].t = MaxTime) =>
           \E args \in {MakeArgs(c)} : \A d \in OtherQueries(c) :
               (encodeKey(d, enc[1].t) = enc[1].key)
                   <=> (d.Command = c.Command /\ MakeArgs(d) = args)
    /\ (Len(enc) = 2 /\ BucketMarker(enc[1].key) = BucketMarker(enc[2].key))
           => enc[1].key = enc[2].key

\* C28's case: c has been encoded, and among the other queries one with
\* another tool name and one with another constraint render the same list and
\* a different list from c's.
C28_Witness ==
    /\ dec # NoDecode
    /\ enc[1].t = MaxTime
    /\ c.cacheLifetime = 2
    /\ c.Pool # EmptyStr
    /\ Len(c.Args) > 0
    /\ \E d \in OtherQueries(c) :
           d.Command # c.Command /\ MakeArgs(d) = MakeArgs(c)
    /\ \E d \in OtherQueries(c) :
           d.Command = c.Command /\ MakeArgs(d) # MakeArgs(c)

\* two keys of one Command in one bucket, encoded at two clock readings
SameBucketTwice ==
    /\ Len(enc) = 2
    /\ c.cacheLifetime > 0
    /\ enc[1].key = enc[2].key


\* the copy caller j runs has the cache, the cache group, the bucket duration
\* and the rendered argument list of the Command it was copied from, and its
\* call has encoded the key of that Command at the same clock reading
CopyKeepsAssociation(j) ==
    LET orig == CmdOf(call[j].cmd)
        copy == CmdFor(j, call[j].cmd)
    IN  /\ copy.cache = orig.cache
        /\ copy.cacheGroup = orig.cacheGroup
        /\ copy.cacheLifetime = orig.cacheLifetime
        /\ MakeArgs(copy) = MakeArgs(orig)
        /\ call[j].key = encodeKey(orig, call[j].t0)
        /\ call[j].origin = "direct" <=> ~orig.cache

\* the first caller's Run of the Command itself has loaded the key of caller
\* j's copy and returned its records
OriginalSucceeded(j) ==
    /\ call[1].pc = "done"
    /\ call[1].cmd = call[j].cmd
    /\ call[1].key = call[j].key
    /\ call[1].origin = "owner"
    /\ call[1].res.err = NoErr

\* C29: an unmodified copy has the cache group, the bucket duration and the
\* rendered argument list of the original and encodes to its key at the same
\* instant, and a Run on the copy that starts after a successful cached Run on
\* the original is a hit, without another execution.
C29_CopyServedFromOriginal ==
    \A j \in DOMAIN call \ {1} :
        call[j].pc # "idle" =>
            /\ CopyKeepsAssociation(j)
            /\ (Returned(j) /\ OriginalSucceeded(j) /\ ~call[j].early) =>
                   /\ call[j].origin = "hit"
                   /\ call[j].exec = call[1].exec

\* C29 as amended: the same, for a Run on the copy that starts while the
\* entry of the original's Run is stored in the cache.
C29_CopyServedWhileStored ==
    \A j \in DOMAIN call \ {1} :
        call[j].pc # "idle" =>
            /\ CopyKeepsAssociation(j)
            /\ (Returned(j) /\ OriginalSucceeded(j) /\ call[j].want.known) =>
                   /\ call[j].origin = "hit"
                   /\ call[j].res.err = NoErr
                   /\ call[j].res.ads = call[j].want.ads
                   /\ execLog[call[j].exec].done
                   /\ \E i \in DOMAIN call :
                          /\ call[i].origin = "owner"
                          /\ call[i].key = call[j].key
                          /\ call[i].exec = call[j].exec

\* C29's case: the first caller ran the Command with an argument through the
\* cache and its output was stored; the second caller ran a copy of it and had
\* a hit on that entry.
C29_Witness ==
    /\ OriginalSucceeded(2)
    /\ call[1].cmd = 2
    /\ Returned(2)
    /\ call[2].want.known
    /\ call[2].origin = "hit"
    /\ call[2].exec = call[1].exec
    /\ Len(execLog) = 1


=============================================================================
